---- MODULE Spec2Model ----
(***************************************************************************)
(* Stack segments, the per-domain stack cache, stack growth and one-shot   *)
(* continuations of runtime/fiber.c.                                       *)
(*                                                                         *)
(* Addresses are byte addresses (integers); a word is sizeof(value) bytes. *)
(* A struct stack_info* is modelled by the index of the memory block that  *)
(* holds it (1..MaxSeg, NULL = 0); the address of the block is the field   *)
(* addr.  The words between sp and Stack_high are the sequence data, the   *)
(* word at sp first.                                                       *)
(***************************************************************************)
EXTENDS Integers, Sequences, FiniteSets, TLC

(* ------------------------------ bounds -------------------------------- *)
\* number of execution contexts (domains)
NCtx == 2
\* number of memory blocks the Backend can hand out in one behaviour
MaxSeg == 4
\* upper bound of the process-wide fiber_id counter in one behaviour
MaxFiberId == 3
\* caml_fiber_wsz, the base fiber size in words (a start-up parameter)
caml_fiber_wsz == 2
\* number of local-arena stacks that exist
MaxArena == 1
\* largest number of live words the running fiber has on its stack
MaxUsed == 4
\* number of objects in the local arenas of a scanned segment
NObj == 3
\* number of segments of a scanned chain
MaxDepth == 2

(* ------------------------- program constants -------------------------- *)
\* sizeof(value)
W == 8
\* sizeof(struct stack_info) / sizeof(value)
Stack_ctx_words == 11
\* sizeof(struct stack_handler) / sizeof(value): three handlers and parent
Stack_handler_words == 4
\* alignment of the struct stack_handler
stack_alignment == 16
\* caml_plat_pagesize
page_size == 4096
NUM_STACK_SIZE_CLASSES == 5
NULL == 0
Val_unit == 1

Ctx == 1..NCtx
SegIds == 1..MaxSeg
Buckets == 0..(NUM_STACK_SIZE_CLASSES - 1)

VARIABLES
  cfg,                \* the build and start-up parameters: backend strategy, NATIVE_CODE,
                      \* frame pointers, Stack_padding_word, malloc alignment, initial stack size
  caml_max_stack_wsize,
  fiber_id,           \* static _Atomic int64_t fiber_id
  segs,               \* memory blocks: struct stack_info, its stack_handler, its live words
  nseg,               \* number of blocks the Backend has handed out
  stack_cache,        \* Caml_state->stack_cache of each context
  cache_freed,        \* per context, number of times its cache array was freed (history)
  backend_calls,      \* number of calls of alloc_for_stack (history)
  released,           \* per block, number of calls of free_stack_memory (history)
  arena_frees,        \* per arena stack, number of times caml_free_local_arenas freed it (history)
  current_stack,      \* Caml_state->current_stack
  exn_handler,        \* Caml_state->exn_handler
  async_exn_handler,  \* Caml_state->async_exn_handler
  c_stack,            \* Caml_state->c_stack, most recent link first
  cont,               \* the continuation: Field(cont, 0), whether it is in the minor heap, and
                      \* how many calls obtained the chain since it was last installed (history)
  held,               \* per context, the chains a take returned to it and it still has (history)
  pc,                 \* position of each context inside a continuation primitive
  call,               \* the locals of the call of caml_continuation_use_noexc a context is in,
                      \* and whether the call darkened the continuation (history)
  running,            \* the contexts that run
  marking,            \* caml_marking_started()
  darkened,           \* whether the continuation was passed to caml_darken_cont (history)
  owned,              \* blocks held by the caller of alloc and not yet freed (history)
  freelog,            \* per context and class, pooled blocks freed and not handed out again, oldest first (history)
  ev,                 \* the last operation, its arguments, result and the state before it (history)
  mem,                \* memory outside the stacks, by address: headers of blocks, the words of
                      \* the local arenas, the register blocks (gc_regs)
  scan,               \* position of the collector inside caml_scan_stack and the flags it passed
  caml_local_arenas,  \* the struct caml_local_arenas of each local-arena stack
  roots               \* the calls of the scanning action f, in order (history)

vars == <<cfg, caml_max_stack_wsize, fiber_id, segs, nseg, stack_cache, cache_freed, backend_calls,
          released, arena_frees, current_stack, exn_handler, async_exn_handler, c_stack,
          cont, held, pc, call, running, marking, darkened, owned, freelog, ev,
          mem, scan, caml_local_arenas, roots>>

\* what the collector's scan reads and writes
scanvars == <<mem, scan, caml_local_arenas, roots>>

(* ------------------------------ layout -------------------------------- *)

\* (x + p2 - 1) & ~(p2 - 1), p2 a power of two
round_up_p2(x, p2) == ((x + p2 - 1) \div p2) * p2

\* caml_mem_round_up_mapping_size: mappings are whole pages
caml_mem_round_up_mapping_size(len) == round_up_p2(len, page_size)

\* distance between the block addresses the Backend hands out
RegionBytes == page_size * (3 + (W * (64 * caml_fiber_wsz + 32)) \div page_size)

\* word counts a caller asks for: the five classes, the next power, sizes between
ReqSizes == { caml_fiber_wsz * k : k \in {1, 2, 3, 4, 8, 16, 32} } \cup { caml_fiber_wsz + 1 }

\* the builds: the three Backend strategies are exclusive, guard pages are native only,
\* the padding word exists on amd64 without frame pointers; align is the offset of a
\* malloc'ed block from a 16-byte boundary, init_wsize the initial stack size
Builds ==
  { b \in [backend : {"mmap_stack", "guard_pages", "heap"}, native : BOOLEAN,
           fp : BOOLEAN, pad : {0, 1}, align : {0, 8}, init_wsize : ReqSizes] :
      /\ (b.backend = "guard_pages" => b.native)
      /\ (b.fp => b.native /\ b.pad = 0)
      /\ (b.pad = 1 => b.native)
      /\ (b.align = 8 => b.backend = "heap") }

NoSeg ==
  [addr |-> 0, handler |-> 0, size |-> 0, cache_bucket |-> -1, sp |-> 0,
   exception_ptr |-> NULL, id |-> -1, local_arenas |-> NULL, local_sp |-> 0,
   local_top |-> NULL, local_limit |-> 0, handle_value |-> 0, handle_exn |-> 0,
   handle_effect |-> 0, parent |-> NULL, data |-> <<>>, wosize |-> 0]

\* Stack_high(stk): the handler, below the padding word
Stack_high(B, stk) == stk.handler - W * B.pad

\* Stack_base(stk): after the struct, or after the guard page
Stack_base(B, stk) ==
  IF B.backend = "guard_pages" THEN stk.addr + 2 * page_size
  ELSE stk.addr + W * Stack_ctx_words

\* usable capacity in words
Capacity(B, stk) == (Stack_high(B, stk) - Stack_base(B, stk)) \div W

\* PlaceHandler without line 176, the room for the padding word
PlaceHandler_nopad(B, raw, wosize0) ==
  LET wosize == wosize0
  IN  IF B.backend = "guard_pages"
      THEN LET trailer_size == round_up_p2(W * Stack_handler_words, stack_alignment)
               len == caml_mem_round_up_mapping_size(
                         W * wosize + trailer_size + 2 * page_size)
           IN  [handler |-> raw + len - trailer_size, size |-> len]
      ELSE LET len == W * Stack_ctx_words + W * wosize + 8 + W * Stack_handler_words
           IN  [handler |-> round_up_p2(raw + W * Stack_ctx_words + W * wosize,
                                        stack_alignment),
                size |-> IF B.backend = "mmap_stack" THEN len ELSE 0]

\* the handler address and mapping length alloc_for_stack computes for a block at raw
PlaceHandler(B, raw, wosize0) ==
  LET wosize == wosize0 + B.pad
  IN  IF B.backend = "guard_pages"
      THEN LET trailer_size == round_up_p2(W * Stack_handler_words, stack_alignment)
               len == caml_mem_round_up_mapping_size(
                         W * wosize + trailer_size + 2 * page_size)
           IN  [handler |-> raw + len - trailer_size, size |-> len]
      ELSE LET len == W * Stack_ctx_words + W * wosize + 8 + W * Stack_handler_words
           IN  [handler |-> round_up_p2(raw + W * Stack_ctx_words + W * wosize,
                                        stack_alignment),
                size |-> IF B.backend = "mmap_stack" THEN len ELSE 0]

\* the heap state the allocation functions read and write
Heap ==
  [segs |-> segs, nseg |-> nseg, stack_cache |-> stack_cache,
   backend_calls |-> backend_calls, released |-> released, arena_frees |-> arena_frees,
   cache_freed |-> cache_freed]

\* alloc_for_stack: ok is whether the Backend has memory (mappings are page aligned,
\* malloc'ed blocks are at B.align from a 16-byte boundary).  Only handler (and size)
\* are set.
alloc_for_stack(B, H, wosize, id, ok) ==
  LET H1 == [H EXCEPT !.backend_calls = @ + 1]
  IN  IF ~ok \/ H.nseg >= MaxSeg
      THEN [H |-> H1, stack |-> NULL]
      ELSE LET s == H.nseg + 1
               raw == s * RegionBytes + B.align
               pl == PlaceHandler(B, raw, wosize)
           IN  [H |-> [H1 EXCEPT !.nseg = s,
                                 !.segs[s] = [NoSeg EXCEPT !.addr = raw,
                                                           !.handler = pl.handler,
                                                           !.size = pl.size]],
                stack |-> s]

\* the loop of stack_cache_bucket from bucket with class size size_bucket_wsz
RECURSIVE bucket_loop(_, _, _)
bucket_loop(wosize, bucket, size_bucket_wsz) ==
  IF bucket < NUM_STACK_SIZE_CLASSES
  THEN IF wosize = size_bucket_wsz THEN bucket
       ELSE bucket_loop(wosize, bucket + 1, size_bucket_wsz + size_bucket_wsz)
  ELSE -1

\* stack_cache_bucket taking the first class that is large enough
RECURSIVE bucket_loop_le(_, _, _)
bucket_loop_le(wosize, bucket, size_bucket_wsz) ==
  IF bucket < NUM_STACK_SIZE_CLASSES
  THEN IF wosize <= size_bucket_wsz THEN bucket
       ELSE bucket_loop_le(wosize, bucket + 1, size_bucket_wsz + size_bucket_wsz)
  ELSE -1

stack_cache_bucket_le(wosize) == bucket_loop_le(wosize, 0, caml_fiber_wsz)

stack_cache_bucket(wosize) == bucket_loop(wosize, 0, caml_fiber_wsz)

(* ----------------------- allocation and release ------------------------ *)

\* free_stack_memory: the block goes back to the Backend
free_stack_memory(H, stack) == [H EXCEPT !.released[stack] = @ + 1]

\* caml_free_local_arenas (memory.c): frees the arena stack, if any
caml_free_local_arenas(H, arenas) ==
  IF arenas = NULL THEN H ELSE [H EXCEPT !.arena_frees[arenas] = @ + 1]

\* cache_pop taking the block behind the head when there is one
cache_pop_second(H, c, cache_bucket) ==
  LET head == H.stack_cache[c][cache_bucket]
      nxt == H.segs[head].exception_ptr
  IN  IF nxt = NULL
      THEN [H |-> [H EXCEPT !.stack_cache[c][cache_bucket] = NULL], stack |-> head]
      ELSE [H |-> [H EXCEPT !.segs[head].exception_ptr = H.segs[nxt].exception_ptr],
            stack |-> nxt]

\* cache_pop leaving the head on its free-list
cache_pop_keep(H, c, cache_bucket) ==
  [H |-> H, stack |-> H.stack_cache[c][cache_bucket]]

\* lines 325-327: unlink the head of a free-list, the link is exception_ptr
cache_pop(H, c, cache_bucket) ==
  LET stack == H.stack_cache[c][cache_bucket]
  IN  [H |-> [H EXCEPT !.stack_cache[c][cache_bucket] = H.segs[stack].exception_ptr],
       stack |-> stack]

\* cache_push on the cache of the first domain
cache_push_first(H, c, stack) ==
  LET b == H.segs[stack].cache_bucket
  IN  [H EXCEPT !.segs[stack].exception_ptr = H.stack_cache[1][b],
                !.stack_cache[1][b] = stack]

\* lines 984-986: link the block in front of its free-list
cache_push(H, c, stack) ==
  LET b == H.segs[stack].cache_bucket
  IN  [H EXCEPT !.segs[stack].exception_ptr = H.stack_cache[c][b],
                !.stack_cache[c][b] = stack]

\* init_stack without line 346, stack->id = id
init_stack_keep_id(B, stk, wosize, hval, hexn, heff, id) ==
  [stk EXCEPT !.handle_value = hval, !.handle_exn = hexn, !.handle_effect = heff,
              !.parent = NULL, !.sp = Stack_high(B, stk), !.data = <<>>,
              !.exception_ptr = NULL, !.local_arenas = NULL,
              !.local_sp = 0, !.local_top = NULL, !.local_limit = 0,
              !.wosize = wosize]

\* init_stack without lines 347-350, the local arenas
init_stack_keep_locals(B, stk, wosize, hval, hexn, heff, id) ==
  [stk EXCEPT !.handle_value = hval, !.handle_exn = hexn, !.handle_effect = heff,
              !.parent = NULL, !.sp = Stack_high(B, stk), !.data = <<>>,
              !.exception_ptr = NULL, !.id = id, !.wosize = wosize]

\* lines 339-350: what every returned block is initialised to
init_stack(B, stk, wosize, hval, hexn, heff, id) ==
  [stk EXCEPT !.handle_value = hval, !.handle_exn = hexn, !.handle_effect = heff,
              !.parent = NULL, !.sp = Stack_high(B, stk), !.data = <<>>,
              !.exception_ptr = NULL, !.id = id, !.local_arenas = NULL,
              !.local_sp = 0, !.local_top = NULL, !.local_limit = 0,
              !.wosize = wosize]

alloc_size_class_stack_noexc(B, H, c, wosize, cache_bucket, hval, hexn, heff, id, ok) ==
  LET got == IF cache_bucket # -1 /\ H.stack_cache[c][cache_bucket] # NULL
             THEN cache_pop(H, c, cache_bucket)
             ELSE LET r == alloc_for_stack(B, H, wosize, id, ok)
                  IN  IF r.stack = NULL THEN r
                      ELSE [H |-> [r.H EXCEPT !.segs[r.stack].cache_bucket = cache_bucket],
                            stack |-> r.stack]
  IN  IF got.stack = NULL THEN got
      ELSE [H |-> [got.H EXCEPT !.segs[got.stack] =
                      init_stack(B, got.H.segs[got.stack], wosize, hval, hexn, heff, id)],
            stack |-> got.stack]

caml_alloc_stack_noexc(B, H, c, wosize, hval, hexn, heff, id, ok) ==
  alloc_size_class_stack_noexc(B, H, c, wosize, stack_cache_bucket(wosize),
                               hval, hexn, heff, id, ok)

caml_free_stack(H, c, stack) ==
  LET H1 == caml_free_local_arenas(H, H.segs[stack].local_arenas)
  IN  IF H1.segs[stack].cache_bucket # -1
      THEN cache_push(H1, c, stack)
      ELSE free_stack_memory(H1, stack)

\* the loop stopping after the first segment of each free-list
free_cache_heads(H, c, i, fuel) ==
  IF H.stack_cache[c][i] = NULL THEN H
  ELSE LET stk == H.stack_cache[c][i]
       IN  free_stack_memory([H EXCEPT !.stack_cache[c][i] = NULL], stk)

\* lines 151-155: the while loop on the free-list of class i
RECURSIVE free_cache_list(_, _, _, _)
free_cache_list(H, c, i, fuel) ==
  IF H.stack_cache[c][i] = NULL \/ fuel = 0 THEN H
  ELSE LET stk == H.stack_cache[c][i]
       IN  free_cache_list(
             free_stack_memory([H EXCEPT !.stack_cache[c][i] = H.segs[stk].exception_ptr],
                               stk),
             c, i, fuel - 1)

\* lines 150-156: the for loop from class i
RECURSIVE free_cache_classes(_, _, _)
free_cache_classes(H, c, i) ==
  IF i >= NUM_STACK_SIZE_CLASSES THEN H
  ELSE free_cache_classes(free_cache_list(H, c, i, MaxSeg + 1), c, i + 1)

\* caml_free_stack_cache (lines 148-158) on the cache of context c
caml_free_stack_cache(H, c) ==
  [free_cache_classes(H, c, 0) EXCEPT !.cache_freed[c] = @ + 1]

(* ------------------------- derived structure -------------------------- *)

\* the blocks of a free-list from head, following exception_ptr
RECURSIVE ListFrom(_, _, _)
ListFrom(S, head, fuel) ==
  IF head = NULL \/ fuel = 0 THEN <<>>
  ELSE <<head>> \o ListFrom(S, S[head].exception_ptr, fuel - 1)

FreeList(c, b) == ListFrom(segs, stack_cache[c][b], MaxSeg + 1)

\* the blocks of a chain from stk, following the parent links
RECURSIVE ChainFrom(_, _, _)
ChainFrom(S, stk, fuel) ==
  IF stk = NULL \/ fuel = 0 THEN <<>>
  ELSE <<stk>> \o ChainFrom(S, S[stk].parent, fuel - 1)

Range(q) == { q[i] : i \in DOMAIN q }

\* q without its occurrences of x
RECURSIVE Without(_, _)
Without(q, x) ==
  IF q = <<>> THEN <<>>
  ELSE (IF Head(q) = x THEN <<>> ELSE <<Head(q)>>) \o Without(Tail(q), x)

(* ---------------------------- actions --------------------------------- *)

SetHeap(H) ==
  /\ segs' = H.segs
  /\ nseg' = H.nseg
  /\ stack_cache' = H.stack_cache
  /\ backend_calls' = H.backend_calls
  /\ released' = H.released
  /\ arena_frees' = H.arena_frees
  /\ cache_freed' = H.cache_freed

\* the handler triple the caller of caml_alloc_stack passes for its id-th fiber
Handlers(id) == <<10 * id + 11, 10 * id + 13, 10 * id + 15>>

FreelogAfterAlloc(c, stack) ==
  IF stack = NULL THEN freelog
  ELSE [freelog EXCEPT ![c] = [b \in Buckets |-> Without(freelog[c][b], stack)]]

\* the state an allocation starts from, for the record of the operation
AllocPre(c, bucket) ==
  [bucket |-> bucket, calls |-> backend_calls,
   log |-> IF bucket = -1 THEN <<>> ELSE freelog[c][bucket],
   nseg |-> nseg]

\* what the caller gave to alloc_size_class_stack_noexc, the segments before the call
\* and the number of words the caller pushed on the segment it got
AllocArgs(h, id, pushed) == [h |-> h, id |-> id, pushed |-> pushed, segs |-> segs]

Val_long(n) == 2 * n + 1

\* caml_alloc_stack (native lines 373-385, bytecode lines 673-690)
AllocStack(c) ==
  /\ c \in running
  /\ pc[c] = "idle"
  /\ fiber_id < MaxFiberId
  /\ \E ok \in BOOLEAN :
       LET id == fiber_id
           h == Handlers(id)
           r == alloc_size_class_stack_noexc(cfg, Heap, c, caml_fiber_wsz, 0,
                                             h[1], h[2], h[3], id, ok)
           H2 == IF r.stack # NULL /\ ~cfg.native
                 THEN [r.H EXCEPT !.segs[r.stack].sp = @ - W,
                                  !.segs[r.stack].data = <<Val_long(1)>>]
                 ELSE r.H
       IN  /\ fiber_id' = fiber_id + 1
           /\ SetHeap(H2)
           /\ owned' = IF r.stack = NULL THEN owned ELSE owned \cup {r.stack}
           /\ freelog' = FreelogAfterAlloc(c, r.stack)
           /\ ev' = [op |-> "alloc", arg |-> caml_fiber_wsz, ret |-> r.stack,
                     exn |-> IF r.stack = NULL THEN "Out_of_memory" ELSE "none",
                     pre |-> AllocPre(c, 0)
                             @@ AllocArgs(h, id, IF cfg.native THEN 0 ELSE 1)]
  /\ UNCHANGED <<scanvars, cfg, caml_max_stack_wsize, current_stack, exn_handler,
                 async_exn_handler, c_stack, cont, held, pc, call, running, marking, darkened>>

\* caml_alloc_main_stack (lines 950-956)
AllocMainStack(c) ==
  /\ c \in running
  /\ pc[c] = "idle"
  /\ fiber_id < MaxFiberId
  /\ \E ok \in BOOLEAN :
       LET id == fiber_id
           init_wsize == cfg.init_wsize
           r == caml_alloc_stack_noexc(cfg, Heap, c, init_wsize,
                                       Val_unit, Val_unit, Val_unit, id, ok)
       IN  /\ fiber_id' = fiber_id + 1
           /\ SetHeap(r.H)
           /\ owned' = IF r.stack = NULL THEN owned ELSE owned \cup {r.stack}
           /\ freelog' = FreelogAfterAlloc(c, r.stack)
           /\ ev' = [op |-> "alloc", arg |-> init_wsize, ret |-> r.stack,
                     exn |-> "none",
                     pre |-> AllocPre(c, stack_cache_bucket(init_wsize))
                             @@ AllocArgs(<<Val_unit, Val_unit, Val_unit>>, id, 0)]
  /\ UNCHANGED <<scanvars, cfg, caml_max_stack_wsize, current_stack, exn_handler,
                 async_exn_handler, c_stack, cont, held, pc, call, running, marking, darkened>>

FreelogAfterFree(c, stack) ==
  LET b == segs[stack].cache_bucket
  IN  IF b = -1 THEN freelog
      ELSE [freelog EXCEPT ![c][b] = Append(@, stack)]

\* caml_free_stack (lines 972-994) on a block its caller holds
FreeStack(c) ==
  /\ c \in running
  /\ pc[c] = "idle"
  /\ \E stack \in owned :
       /\ SetHeap(caml_free_stack(Heap, c, stack))
       /\ owned' = owned \ {stack}
       /\ freelog' = FreelogAfterFree(c, stack)
       /\ ev' = [op |-> "free", arg |-> stack, ret |-> 0, exn |-> "none",
                 pre |-> [bucket |-> segs[stack].cache_bucket, calls |-> backend_calls,
                          log |-> <<>>, nseg |-> nseg]]
  /\ UNCHANGED <<scanvars, cfg, caml_max_stack_wsize, fiber_id, current_stack, exn_handler,
                 async_exn_handler, c_stack, cont, held, pc, call, running, marking, darkened>>

NoCall == [v |-> NULL, empty0 |-> FALSE, after0 |-> FALSE, replaced |-> FALSE,
           dark |-> FALSE]

\* caml_alloc_stack_cache (lines 131-145): every class empty
caml_alloc_stack_cache == [b \in Buckets |-> NULL]

\* no block handed out, every cache empty
EmptyHeap ==
  [segs |-> [s \in SegIds |-> NoSeg], nseg |-> 0,
   stack_cache |-> [c \in Ctx |-> caml_alloc_stack_cache],
   backend_calls |-> 0, released |-> [s \in SegIds |-> 0],
   arena_frees |-> [a \in 1..MaxArena |-> 0],
   cache_freed |-> [c \in Ctx |-> 0]]

SetInitHeap(H) ==
  /\ segs = H.segs
  /\ nseg = H.nseg
  /\ stack_cache = H.stack_cache
  /\ backend_calls = H.backend_calls
  /\ released = H.released
  /\ arena_frees = H.arena_frees
  /\ cache_freed = H.cache_freed

\* the collector is not scanning
NoScan == [phase |-> "idle", stack |-> NULL, sp |-> 0, arena_ix |-> 0, gc_regs |-> NULL,
           fflags |-> 0, visited |-> <<>>]

NoScanning ==
  /\ mem = <<>>
  /\ scan = NoScan
  /\ caml_local_arenas = <<>>
  /\ roots = <<>>

InitCommon ==
  /\ cfg \in Builds
  /\ current_stack = [c \in Ctx |-> NULL]
  /\ exn_handler = [c \in Ctx |-> NULL]
  /\ async_exn_handler = [c \in Ctx |-> NULL]
  /\ c_stack = [c \in Ctx |-> <<>>]
  /\ held = [c \in Ctx |-> {}]
  /\ pc = [c \in Ctx |-> "idle"]
  /\ call = [c \in Ctx |-> NoCall]
  /\ darkened = FALSE
  /\ owned = {}
  /\ freelog = [c \in Ctx |-> [b \in Buckets |-> <<>>]]
  /\ ev = [op |-> "init", arg |-> 0, ret |-> 0, exn |-> "none", pre |-> <<>>]
  /\ NoScanning

\* allocation and release of segments by one context, in every build
Init ==
  /\ InitCommon
  /\ fiber_id = 0
  /\ SetInitHeap(EmptyHeap)
  /\ cont = [stk |-> NULL, young |-> TRUE, wins |-> 0]
  /\ marking = FALSE
  /\ ~cfg.fp
  /\ caml_max_stack_wsize = 64 * caml_fiber_wsz
  /\ running = {1}

Next ==
  \E c \in Ctx :
    \/ AllocStack(c)
    \/ AllocMainStack(c)
    \/ FreeStack(c)

Spec == Init /\ [][Next]_vars

(* --------------------------- continuations ---------------------------- *)

\* caml_domain_alone (domain.c): this context is the only one running
caml_domain_alone == Cardinality(running) = 1

\* lines 1023-1032 without the compare: the slot is cleared and v returned
use_noexc_finish_plain(slot, v, alone) == [slot |-> NULL, ret |-> v]

\* lines 1023-1032 leaving the slot as it is when the exchange succeeds
use_noexc_finish_keep(slot, v, alone) ==
  IF alone \/ slot = v THEN [slot |-> slot, ret |-> v] ELSE [slot |-> slot, ret |-> NULL]

\* lines 1023-1032 without the store of line 1024 when the domain is alone
use_noexc_finish_noclear(slot, v, alone) ==
  IF alone THEN [slot |-> slot, ret |-> v]
  ELSE IF slot = v THEN [slot |-> NULL, ret |-> v]
       ELSE [slot |-> slot, ret |-> NULL]

\* lines 1023-1032: the plain store when alone, else the compare-and-exchange of
\* the slot against the value v read before
use_noexc_finish(slot, v, alone) ==
  IF alone THEN [slot |-> NULL, ret |-> v]
  ELSE IF slot = v THEN [slot |-> NULL, ret |-> v]
       ELSE [slot |-> slot, ret |-> NULL]

\* caml_continuation_use that never raises
raise_never(v) == "none"

\* caml_continuation_use (lines 1038-1039)
raise_if_null(v) == IF v = NULL THEN "Continuation_already_resumed" ELSE "none"

\* the top segment taken for the outermost
Outermost_top(S, stk, fuel) == stk

\* line 1055: the segment of the chain that has no parent
RECURSIVE Outermost(_, _, _)
Outermost(S, stk, fuel) ==
  IF S[stk].parent = NULL \/ fuel = 0 THEN stk ELSE Outermost(S, S[stk].parent, fuel - 1)

\* lines 1055-1058
update_handler(S, stk, hval, hexn, heff) ==
  LET o == Outermost(S, stk, MaxSeg)
  IN  [S EXCEPT ![o].handle_value = hval, ![o].handle_exn = hexn, ![o].handle_effect = heff]

ContOps == {"use_noexc", "use", "use_and_update_handler", "drop"}

\* the handlers passed to caml_continuation_use_and_update_handler_noexc
NewHandlers == <<31, 33, 35>>

\* a barrier for the continuations of the minor heap only
barrier_young(young, mark) == young /\ mark

\* lines 1018-1019: whether caml_darken_cont is called
barrier(young, mark) == ~young /\ mark

\* a context enters caml_continuation_use_noexc, from whichever primitive, and runs
\* lines 1018-1019: the barrier against domains marking the continuation
ContEnter(c) ==
  /\ c \in running
  /\ pc[c] = "idle"
  /\ call' = [call EXCEPT ![c] = [v |-> NULL, empty0 |-> cont.stk = NULL,
                                  after0 |-> cont.wins > 0, replaced |-> FALSE,
                                  dark |-> barrier(cont.young, marking)]]
  /\ darkened' = (darkened \/ barrier(cont.young, marking))
  /\ pc' = [pc EXCEPT ![c] = "read"]
  /\ UNCHANGED <<scanvars, cfg, caml_max_stack_wsize, fiber_id, segs, nseg, stack_cache, cache_freed,
                 backend_calls, released, arena_frees, current_stack, exn_handler,
                 async_exn_handler, c_stack, cont, held, running, marking,
                 owned, freelog, ev>>

\* line 1021: v = Field(cont, 0)
ContRead(c) ==
  /\ pc[c] = "read"
  /\ call' = [call EXCEPT ![c].v = cont.stk]
  /\ pc' = [pc EXCEPT ![c] = "xchg"]
  /\ UNCHANGED <<scanvars, cfg, caml_max_stack_wsize, fiber_id, segs, nseg, stack_cache, cache_freed,
                 backend_calls, released, arena_frees, current_stack, exn_handler,
                 async_exn_handler, c_stack, cont, held, running, marking, darkened,
                 owned, freelog, ev>>

\* the state a primitive finishes from, for the record of the operation
ContPre(c) ==
  [empty0 |-> call[c].empty0, after0 |-> call[c].after0, replaced |-> call[c].replaced,
   released |-> released, cache |-> stack_cache,
   chain |-> ChainFrom(segs, cont.stk, MaxSeg), segs |-> segs]

\* lines 1023-1032 and the rest of the primitive op that called
\* caml_continuation_use_noexc: caml_continuation_use (1035-1041),
\* caml_continuation_use_and_update_handler_noexc (1043-1060), caml_drop_continuation
\* (1070-1075), which works on the chain it now owns and on its own cache.  The
\* primitives do not differ before this point.
ContFinish(c) ==
  /\ pc[c] = "xchg"
  /\ \E op \in ContOps :
     LET r == use_noexc_finish(cont.stk, call[c].v, caml_domain_alone)
         exn == IF op \in {"use", "drop"} THEN raise_if_null(r.ret) ELSE "none"
         h == NewHandlers
         H1 == IF op = "use_and_update_handler" /\ r.ret # NULL
               THEN [Heap EXCEPT !.segs = update_handler(@, r.ret, h[1], h[2], h[3])]
               ELSE IF op = "drop" /\ exn = "none" /\ r.ret # NULL
               THEN caml_free_stack(Heap, c, r.ret)
               ELSE Heap
         \* caml_free_stack(NULL) dereferences the null pointer
         crash == op = "drop" /\ exn = "none" /\ r.ret = NULL
         keeps == op # "drop" /\ r.ret # NULL
     IN  /\ cont' = [cont EXCEPT !.stk = r.slot,
                                 !.wins = IF r.ret # NULL THEN @ + 1 ELSE @]
         /\ SetHeap(H1)
         /\ held' = IF keeps THEN [held EXCEPT ![c] = @ \cup {r.ret}] ELSE held
         /\ freelog' = IF op = "drop" /\ exn = "none" /\ r.ret # NULL
                       THEN FreelogAfterFree(c, r.ret) ELSE freelog
         /\ call' = [call EXCEPT ![c] = NoCall]
         /\ ev' = [op |-> op, arg |-> h[1], ret |-> r.ret,
                   exn |-> IF crash THEN "segfault" ELSE exn, pre |-> ContPre(c)]
  /\ pc' = [pc EXCEPT ![c] = "idle"]
  /\ UNCHANGED <<scanvars, cfg, caml_max_stack_wsize, fiber_id, current_stack, exn_handler,
                 async_exn_handler, c_stack, running, marking, darkened, owned>>

\* a plain store in place of the compare-and-exchange
replace_store(slot, stk) == [slot |-> stk, b |-> slot = NULL]

\* line 1065: atomic_compare_exchange_strong of the slot, from the null stack to stk
replace_cas(slot, stk) ==
  IF slot = NULL THEN [slot |-> stk, b |-> TRUE] ELSE [slot |-> slot, b |-> FALSE]

\* caml_continuation_replace (lines 1062-1068) by a context that holds a chain; the
\* assertion of line 1066 fails when the exchange failed
ContReplace(c) ==
  /\ c \in running
  /\ pc[c] = "idle"
  /\ \E stk \in held[c] :
       LET r == replace_cas(cont.stk, stk)
           b == r.b
       IN  /\ cont' = [cont EXCEPT !.stk = r.slot, !.wins = IF b THEN 0 ELSE @]
           /\ held' = IF b THEN [held EXCEPT ![c] = @ \ {stk}] ELSE held
           /\ call' = [d \in Ctx |->
                         IF pc[d] # "idle" /\ b THEN [call[d] EXCEPT !.replaced = TRUE]
                         ELSE call[d]]
           /\ ev' = [op |-> "replace", arg |-> stk, ret |-> 0,
                     exn |-> IF b THEN "none" ELSE "assert", pre |-> ContPre(c)]
  /\ UNCHANGED <<scanvars, cfg, caml_max_stack_wsize, fiber_id, segs, nseg, stack_cache, cache_freed,
                 backend_calls, released, arena_frees, current_stack, exn_handler,
                 async_exn_handler, c_stack, pc, running, marking, darkened, owned,
                 freelog>>

\* the builds the continuation primitives are run in: they differ in whether the
\* top segment of the chain is pooled
ContBuilds ==
  { b \in Builds : b.backend = "heap" /\ b.align = 0 /\ ~b.native
                   /\ b.init_wsize \in {caml_fiber_wsz, caml_fiber_wsz + 1} }

\* the heap of InitCont: segment 1 with parent segment 2
ContHeap(B) ==
  LET r1 == caml_alloc_stack_noexc(B, EmptyHeap, 1, B.init_wsize, 11, 13, 15, 0, TRUE)
      r2 == caml_alloc_stack_noexc(B, r1.H, 1, caml_fiber_wsz, 21, 23, 25, 1, TRUE)
  IN  [r2.H EXCEPT !.segs[r1.stack].parent = r2.stack]

\* a continuation that holds a chain of two segments, the top one of the initial
\* stack size, taken by one context alone or by all of them
InitCont ==
  /\ InitCommon
  /\ cfg \in ContBuilds
  /\ caml_max_stack_wsize = 64 * caml_fiber_wsz
  /\ running \in {{1}, Ctx}
  /\ marking \in BOOLEAN
  /\ \E young \in BOOLEAN : cont = [stk |-> 1, young |-> young, wins |-> 0]
  /\ fiber_id = 2
  /\ SetInitHeap(ContHeap(cfg))

NextCont ==
  \E c \in Ctx :
    \/ ContEnter(c)
    \/ ContRead(c)
    \/ ContFinish(c)
    \/ ContReplace(c)

SpecCont == InitCont /\ [][NextCont]_vars

\* the heap of InitReplace: the chain of ContHeap and segment 3, a chain of its own
ReplaceHeap(B) ==
  caml_alloc_stack_noexc(B, ContHeap(B), NCtx, caml_fiber_wsz, 41, 43, 45, 2, TRUE).H

\* the continuation holds the chain of segments 1 and 2, and the last context holds
\* the chain of a fiber that it may install with caml_continuation_replace; the first
\* and the last context run
InitReplace ==
  /\ cfg \in { b \in ContBuilds : b.init_wsize = caml_fiber_wsz }
  /\ caml_max_stack_wsize = 64 * caml_fiber_wsz
  /\ running = {1, NCtx}
  /\ marking = FALSE
  /\ cont = [stk |-> 1, young |-> TRUE, wins |-> 0]
  /\ fiber_id = 3
  /\ SetInitHeap(ReplaceHeap(cfg))
  /\ current_stack = [c \in Ctx |-> NULL]
  /\ exn_handler = [c \in Ctx |-> NULL]
  /\ async_exn_handler = [c \in Ctx |-> NULL]
  /\ c_stack = [c \in Ctx |-> <<>>]
  /\ held = [c \in Ctx |-> IF c = NCtx THEN {3} ELSE {}]
  /\ pc = [c \in Ctx |-> "idle"]
  /\ call = [c \in Ctx |-> NoCall]
  /\ darkened = FALSE
  /\ owned = {}
  /\ freelog = [c \in Ctx |-> [b \in Buckets |-> <<>>]]
  /\ ev = [op |-> "init", arg |-> 0, ret |-> 0, exn |-> "none", pre |-> <<>>]
  /\ NoScanning

SpecReplace == InitReplace /\ [][NextCont]_vars

(* ------------------- claims on allocation and the cache ---------------- *)

Allocated == 1..nseg

\* the five pooled sizes
ClassSizes == { caml_fiber_wsz * m : m \in {1, 2, 4, 8, 16} }

OnSomeFreeList(s) == \E c \in Ctx, b \in Buckets : s \in Range(FreeList(c, b))

\* C5: a segment returned by an allocation, fresh from the Backend or taken from the
\* cache, has at least the requested number of words between Stack_base and Stack_high.
C5_CapacityAtLeastRequested ==
  (ev.op = "alloc" /\ ev.ret # NULL) => Capacity(cfg, segs[ev.ret]) >= ev.arg

\* a recycled segment was returned in a build with the padding word
C5_Witness ==
  /\ ev.op = "alloc" /\ ev.ret # NULL
  /\ ev.pre.calls = backend_calls
  /\ cfg.pad = 1
  /\ Capacity(cfg, segs[ev.ret]) = ev.arg

\* C6: an allocation made while the free-list of its class holds freed segments returns
\* the one freed last among those not handed out again, and does not call the Backend.
C6_LifoReuse ==
  (ev.op = "alloc" /\ ev.pre.log # <<>>) =>
     /\ ev.ret = ev.pre.log[Len(ev.pre.log)]
     /\ backend_calls = ev.pre.calls

\* two segments of the class had been freed when the allocation was made
C6_Witness ==
  /\ ev.op = "alloc"
  /\ Len(ev.pre.log) = 2
  /\ ev.ret = ev.pre.log[2]

\* C7: a segment is pooled exactly when its requested size is one of the five class
\* sizes; a segment of another size is on no free-list, freeing it gives it back to the
\* Backend, and every allocation of such a size calls the Backend.
C7_PooledIffClassSize ==
  /\ \A s \in Allocated :
       /\ (segs[s].cache_bucket # -1) <=> (segs[s].wosize \in ClassSizes)
       /\ segs[s].wosize \notin ClassSizes => ~OnSomeFreeList(s)
  /\ (ev.op = "free" /\ segs[ev.arg].wosize \notin ClassSizes) => released[ev.arg] = 1
  /\ (ev.op = "alloc" /\ ev.arg \notin ClassSizes) => backend_calls = ev.pre.calls + 1

\* an unpooled size was allocated, freed and allocated again: two Backend calls
C7_Witness ==
  /\ ev.op = "alloc" /\ ev.ret = 2
  /\ ev.arg \notin ClassSizes
  /\ segs[1].wosize = ev.arg
  /\ released[1] = 1
  /\ backend_calls = 2

(* ----------------------- claims on continuations ----------------------- *)

TakeOps == {"use_noexc", "use", "use_and_update_handler", "drop"}

\* the number of places s has on the free-lists of all contexts
CachedCount(s) ==
  Cardinality({ x \in Ctx \X Buckets \X (1..(MaxSeg + 1)) :
                  /\ x[3] <= Len(FreeList(x[1], x[2]))
                  /\ FreeList(x[1], x[2])[x[3]] = s })

\* C1: of the calls of take that run on a populated continuation, concurrently or
\* not, exactly one obtains the chain and the others get the null sentinel; no chain
\* is returned twice, nor held by two contexts.
C1_ExactlyOneTake ==
  /\ cont.wins <= 1
  /\ \A c1, c2 \in Ctx : c1 # c2 => held[c1] \cap held[c2] = {}
  /\ (ev.op \in TakeOps /\ ~ev.pre.replaced) =>
        /\ cont.wins = 1
        /\ cont.stk = NULL
        /\ (ev.ret # NULL => ~ev.pre.empty0)

\* a call that entered while the continuation was populated lost against another one
C1_Witness ==
  /\ running = Ctx
  /\ ev.op \in TakeOps
  /\ ~ev.pre.empty0 /\ ~ev.pre.replaced
  /\ ev.ret = NULL
  /\ \E c \in Ctx : held[c] # {}

\* C2: a take that starts after a take succeeded, with no replace in between, gets the
\* null sentinel from caml_continuation_use_noexc and the Continuation_already_resumed
\* exception from caml_continuation_use, and leaves the slot empty.
C2_TakeAfterTake ==
  (ev.op \in {"use_noexc", "use"} /\ ev.pre.after0 /\ ~ev.pre.replaced) =>
     /\ ev.ret = NULL
     /\ cont.stk = NULL
     /\ ev.exn = (IF ev.op = "use" THEN "Continuation_already_resumed" ELSE "none")

\* caml_continuation_use raised on a continuation taken before
C2_Witness ==
  /\ ev.op = "use" /\ ev.pre.after0 /\ ~ev.pre.replaced
  /\ ev.exn = "Continuation_already_resumed"

\* C3 as claimed: caml_drop_continuation on an empty continuation returns normally,
\* releases nothing and changes no free-list.
C3_DropEmptyIsNoop ==
  (ev.op = "drop" /\ ev.pre.empty0 /\ ~ev.pre.replaced) =>
     /\ ev.exn = "none"
     /\ released = ev.pre.released
     /\ stack_cache = ev.pre.cache

\* C3 as the code has it: caml_drop_continuation on an empty continuation raises
\* Continuation_already_resumed; it releases nothing, changes no free-list and no
\* segment, and the slot stays empty.
C3_DropEmptyRaises ==
  (ev.op = "drop" /\ ev.pre.empty0 /\ ~ev.pre.replaced) =>
     /\ ev.exn = "Continuation_already_resumed"
     /\ released = ev.pre.released
     /\ stack_cache = ev.pre.cache
     /\ segs = ev.pre.segs
     /\ cont.stk = NULL

\* caml_drop_continuation ran on an empty continuation
C3_Witness ==
  /\ ev.op = "drop" /\ ev.pre.empty0 /\ ~ev.pre.replaced
  /\ ev.ret = NULL

\* C4 as claimed: caml_drop_continuation on a populated continuation empties the slot
\* and every segment of the chain, the top one and its parents, is released once: it
\* is at one place of a free-list or was given back to the Backend.
C4_DropReleasesChain ==
  (ev.op = "drop" /\ ev.ret # NULL) =>
     /\ cont.stk = NULL
     /\ \A s \in Range(ChainFrom(ev.pre.segs, ev.ret, MaxSeg)) :
          CachedCount(s) + released[s] = 1

(* ----------------------------- stack growth ---------------------------- *)

\* whether a is the address of a word between sp and Stack_high
InLive(B, stk, a) == stk.sp <= a /\ a < Stack_high(B, stk)

\* the word at a, a in the live region
WordAt(stk, a) == stk.data[(a - stk.sp) \div W + 1]

\* reading a word the fiber never wrote gives no pointer into a stack
ReadWord(B, stk, a) == IF InLive(B, stk, a) THEN WordAt(stk, a) ELSE NULL

SetWord(stk, a, v) == [stk EXCEPT !.data[(a - stk.sp) \div W + 1] = v]

\* number of words between sp and Stack_high
stack_used(B, stk) == (Stack_high(B, stk) - stk.sp) \div W

\* realloc_wsize doubling once, whatever is needed
realloc_wsize_once(wsize, max_stack_wsize, need) ==
  IF wsize >= max_stack_wsize THEN 0 ELSE wsize * 2

\* lines 845-848: the size the loop ends with, 0 when it returns 0
RECURSIVE realloc_wsize(_, _, _)
realloc_wsize(wsize, max_stack_wsize, need) ==
  IF wsize >= max_stack_wsize THEN 0
  ELSE IF wsize * 2 < need THEN realloc_wsize(wsize * 2, max_stack_wsize, need)
       ELSE wsize * 2

\* memcpy leaving out the word at sp
memcpy_words_short(src, n) ==
  [i \in 1..n |-> IF i = 1 THEN NULL ELSE src[Len(src) - n + i]]

\* lines 869-871: the n words below Stack_high
memcpy_words(src, n) == [i \in 1..n |-> src[Len(src) - n + i]]

\* line 805 never finding the asynchronous trap frame
must_update_never(exn_ptr_val, async_exn_ptr_val) == FALSE

\* line 805
must_update_async_exn_ptr(exn_ptr_val, async_exn_ptr_val) ==
  exn_ptr_val = async_exn_ptr_val

\* Op at the value of e, e computed once: the assignment of a C local
With(Op(_), e) == CHOOSE y \in { Op(x) : x \in {e} } : TRUE

\* caml_rewrite_exception_stack (lines 791-827), the loop from exn_ptr = loc;
\* loc = NULL stands for &Caml_state->exn_handler, G is [exn, async, new]
RECURSIVE rewrite_exception_loop(_, _, _, _, _)
rewrite_exception_loop(B, old, G, loc, fuel) ==
  LET cur == IF loc = NULL THEN G.exn ELSE ReadWord(B, G.new, loc)
  IN  IF fuel = 0 \/ ~(Stack_base(B, old) < cur /\ cur <= Stack_high(B, old))
      THEN G
      ELSE LET nv == Stack_high(B, G.new) - (Stack_high(B, old) - cur)
               must == must_update_async_exn_ptr(cur, G.async)
               G1 == IF loc = NULL THEN [G EXCEPT !.exn = nv]
                     ELSE [G EXCEPT !.new = SetWord(@, loc, nv)]
               G2 == IF must THEN [G1 EXCEPT !.async = nv] ELSE G1
           IN  With(LAMBDA g : rewrite_exception_loop(B, old, g, nv, fuel - 1), G2)

caml_rewrite_exception_stack(B, old, exn, async, new) ==
  With(LAMBDA g : rewrite_exception_loop(B, old, g, NULL, Len(g.new.data) + 2),
       [exn |-> exn, async |-> async, new |-> new])

\* lines 914-922: the frame pointers above a C frame; loc = NULL stands for the
\* word below the c_stack_link, G is [fp, new]
RECURSIVE rewrite_frame_pointers(_, _, _, _, _, _)
rewrite_frame_pointers(B, old, delta, G, loc, fuel) ==
  LET prev == IF loc = NULL THEN G.fp ELSE ReadWord(B, G.new, loc)
  IN  IF fuel = 0 \/ ~(Stack_base(B, old) <= prev /\ prev < Stack_high(B, old))
      THEN G
      ELSE LET nv == prev + delta
               G1 == IF loc = NULL THEN [G EXCEPT !.fp = nv]
                     ELSE [G EXCEPT !.new = SetWord(@, loc, nv)]
           IN  With(LAMBDA g : rewrite_frame_pointers(B, old, delta, g, nv, fuel - 1), G1)

\* rewrite_link_fields without line 924, link->stack = new_stack
rewrite_link_fields_keep_stack(B, old_stack, old, new_stack, link, F) ==
  LET delta == Stack_high(B, F.new) - Stack_high(B, old)
      l1 == IF link.stack = old_stack
            THEN [link EXCEPT !.sp = @ + delta, !.fp = F.fp]
            ELSE link
      l2 == IF /\ l1.async_exn_handler >= Stack_base(B, old)
               /\ l1.async_exn_handler < Stack_high(B, old)
            THEN [l1 EXCEPT !.async_exn_handler = @ + delta]
            ELSE l1
  IN  [link |-> l2, new |-> F.new]

\* lines 924-940: link->stack, link->sp and link->async_exn_handler, F is what the
\* frame pointer loop left
rewrite_link_fields(B, old_stack, old, new_stack, link, F) ==
  LET delta == Stack_high(B, F.new) - Stack_high(B, old)
      l1 == IF link.stack = old_stack
            THEN [link EXCEPT !.stack = new_stack, !.sp = @ + delta, !.fp = F.fp]
            ELSE link
      l2 == IF /\ l1.async_exn_handler >= Stack_base(B, old)
               /\ l1.async_exn_handler < Stack_high(B, old)
            THEN [l1 EXCEPT !.async_exn_handler = @ + delta]
            ELSE l1
  IN  [link |-> l2, new |-> F.new]

\* lines 902-940: one c_stack_link
rewrite_link(B, old_stack, old, new_stack, new, link) ==
  With(LAMBDA F : rewrite_link_fields(B, old_stack, old, new_stack, link, F),
       IF link.stack = old_stack /\ B.fp
       THEN rewrite_frame_pointers(B, old, Stack_high(B, new) - Stack_high(B, old),
                                   [fp |-> link.fp, new |-> new], NULL,
                                   Len(new.data) + 2)
       ELSE [fp |-> link.fp, new |-> new])

\* lines 901-941: the links from the most recent one
RECURSIVE rewrite_c_stack(_, _, _, _, _, _, _)
rewrite_c_stack(B, old_stack, old, new_stack, new, links, i) ==
  IF i > Len(links) THEN [links |-> links, new |-> new]
  ELSE With(LAMBDA r : rewrite_c_stack(B, old_stack, old, new_stack, r.new,
                                       [links EXCEPT ![i] = r.link], i + 1),
            rewrite_link(B, old_stack, old, new_stack, new, links[i]))

\* what caml_try_realloc_stack reads and writes of Caml_state
CtxState(c) ==
  [current_stack |-> current_stack[c], exn_handler |-> exn_handler[c],
   async_exn_handler |-> async_exn_handler[c], c_stack |-> c_stack[c]]

\* lines 869-884: the copy, sp, the parent and the local arenas of the new stack
realloc_copy(B, old, new0) ==
  [new0 EXCEPT !.data = memcpy_words(old.data, stack_used(B, old)),
               !.sp = Stack_high(B, new0) - W * stack_used(B, old),
               !.parent = old.parent,
               !.local_arenas = old.local_arenas,
               !.local_sp = old.local_sp,
               !.local_top = old.local_top,
               !.local_limit = old.local_limit]

\* the old stack keeping its locals
realloc_detach_keep(old) == old

\* lines 881-884: the locals are detached from the old stack
realloc_detach(old) ==
  [old EXCEPT !.local_arenas = NULL, !.local_sp = 0, !.local_top = NULL,
              !.local_limit = 0]

\* lines 896-946: the c_stack links, the release of the old stack, current_stack;
\* r is what caml_alloc_stack_noexc returned, G what the exception rewriting left
realloc_links(B, c, S, r, old1, G, wsize) ==
  With(LAMBDA L :
         [ret |-> 1,
          H |-> caml_free_stack([r.H EXCEPT !.segs[r.stack] = L.new,
                                            !.segs[S.current_stack] = old1],
                                c, S.current_stack),
          S |-> [current_stack |-> r.stack, exn_handler |-> G.exn,
                 async_exn_handler |-> G.async, c_stack |-> L.links],
          wsize |-> wsize],
       rewrite_c_stack(B, S.current_stack, old1, r.stack, G.new, S.c_stack, 1))

\* realloc_into detaching the locals of the old stack before the test of new_stack
realloc_into_detach_first(B, c, S, old, r, wsize) ==
  IF r.stack = NULL
  THEN [ret |-> 0, H |-> [r.H EXCEPT !.segs[S.current_stack] = realloc_detach(old)],
        S |-> S, wsize |-> wsize]
  ELSE With(LAMBDA G : realloc_links(B, c, S, r, realloc_detach(old), G, wsize),
            IF B.native
            THEN caml_rewrite_exception_stack(B, realloc_detach(old), S.exn_handler,
                                              S.async_exn_handler,
                                              realloc_copy(B, old, r.H.segs[r.stack]))
            ELSE [exn |-> S.exn_handler, async |-> S.async_exn_handler,
                  new |-> realloc_copy(B, old, r.H.segs[r.stack])])

\* lines 868-946, r is what caml_alloc_stack_noexc returned
realloc_into(B, c, S, old, r, wsize) ==
  IF r.stack = NULL
  THEN [ret |-> 0, H |-> r.H, S |-> S, wsize |-> wsize]
  ELSE With(LAMBDA G : realloc_links(B, c, S, r, realloc_detach(old), G, wsize),
            IF B.native
            THEN caml_rewrite_exception_stack(B, realloc_detach(old), S.exn_handler,
                                              S.async_exn_handler,
                                              realloc_copy(B, old, r.H.segs[r.stack]))
            ELSE [exn |-> S.exn_handler, async |-> S.async_exn_handler,
                  new |-> realloc_copy(B, old, r.H.segs[r.stack])])

\* caml_try_realloc_stack (lines 830-948); wsize is the size asked of
\* caml_alloc_stack_noexc, 0 when none is asked
caml_try_realloc_stack(B, H, c, S, max_stack_wsize, required_space, ok) ==
  IF B.backend # "heap"
  THEN [ret |-> 0, H |-> H, S |-> S, wsize |-> 0]
  ELSE
    LET old == H.segs[S.current_stack]
        wsize == realloc_wsize(Capacity(B, old), max_stack_wsize,
                               stack_used(B, old) + required_space)
    IN  IF wsize = 0
        THEN [ret |-> 0, H |-> H, S |-> S, wsize |-> 0]
        ELSE With(LAMBDA r : realloc_into(B, c, S, old, r, wsize),
                  caml_alloc_stack_noexc(B, H, c, wsize, old.handle_value,
                                         old.handle_exn, old.handle_effect, old.id, ok))

\* the required_space callers pass: one word, and more than two fibers hold
Required == {1, 2 * caml_fiber_wsz + 1}

\* the state a growth starts from, for the record of the operation
GrowPre(c) ==
  [cur |-> current_stack[c], seg |-> segs[current_stack[c]], exn |-> exn_handler[c],
   async |-> async_exn_handler[c], links |-> c_stack[c], calls |-> backend_calls]

TryReallocStack(c) ==
  /\ c \in running
  /\ pc[c] = "idle"
  /\ current_stack[c] # NULL
  /\ backend_calls <= MaxSeg
  /\ \E required_space \in Required, ok \in BOOLEAN :
       \E r \in {caml_try_realloc_stack(cfg, Heap, c, CtxState(c), caml_max_stack_wsize,
                                        required_space, ok)} :
         LET old_stack == current_stack[c]
             new_stack == r.S.current_stack
             b == segs[old_stack].cache_bucket
             log1 == IF r.ret = 1
                     THEN [freelog EXCEPT ![c] =
                             [k \in Buckets |-> Without(freelog[c][k], new_stack)]]
                     ELSE freelog
         IN  /\ SetHeap(r.H)
             /\ current_stack' = [current_stack EXCEPT ![c] = r.S.current_stack]
             /\ exn_handler' = [exn_handler EXCEPT ![c] = r.S.exn_handler]
             /\ async_exn_handler' =
                  [async_exn_handler EXCEPT ![c] = r.S.async_exn_handler]
             /\ c_stack' = [c_stack EXCEPT ![c] = r.S.c_stack]
             /\ freelog' = IF r.ret = 1 /\ b # -1
                           THEN [log1 EXCEPT ![c][b] = Append(@, old_stack)]
                           ELSE log1
             /\ ev' = [op |-> "grow", arg |-> required_space, ret |-> r.ret,
                       exn |-> "none", pre |-> GrowPre(c) @@ [wsize |-> r.wsize]]
  /\ UNCHANGED <<scanvars, cfg, caml_max_stack_wsize, fiber_id, cont, held, pc, call, running,
                 marking, darkened, owned>>

\* whether the running fiber can push n words: at most MaxUsed words are live, and
\* native code keeps room below sp (Stack_threshold, stack.h)
CanPush(c, n) ==
  /\ c \in running
  /\ pc[c] = "idle"
  /\ current_stack[c] # NULL
  /\ LET stk == segs[current_stack[c]]
     IN  /\ stack_used(cfg, stk) + n <= MaxUsed
         /\ IF cfg.native THEN stk.sp - W * n > Stack_base(cfg, stk)
            ELSE stk.sp - W * n >= Stack_base(cfg, stk)

\* the stack after pushing the words ws, ws[1] last
Pushed(stk, ws) == [stk EXCEPT !.sp = @ - W * Len(ws), !.data = ws \o @]

PushEv == [op |-> "push", arg |-> 0, ret |-> 0, exn |-> "none", pre |-> <<>>]

\* the running code pushes a value
PushValue(c) ==
  /\ CanPush(c, 1)
  /\ LET cur == current_stack[c]
     IN  segs' = [segs EXCEPT ![cur] =
                    Pushed(@, <<Val_long(stack_used(cfg, segs[cur]))>>)]
  /\ ev' = PushEv
  /\ UNCHANGED <<scanvars, cfg, caml_max_stack_wsize, fiber_id, nseg, stack_cache, cache_freed, backend_calls,
                 released, arena_frees, current_stack, exn_handler, async_exn_handler,
                 c_stack, cont, held, pc, call, running, marking, darkened, owned, freelog>>

\* native code installs an exception handler: the trap frame is the previous
\* exn_handler and the handler address; it may be an asynchronous trap frame
PushTrap(c) ==
  /\ cfg.native
  /\ CanPush(c, 2)
  /\ \E async \in BOOLEAN :
       LET cur == current_stack[c]
           stk == Pushed(segs[cur],
                         <<exn_handler[c], Val_long(stack_used(cfg, segs[cur]))>>)
       IN  /\ segs' = [segs EXCEPT ![cur] = stk]
           /\ exn_handler' = [exn_handler EXCEPT ![c] = stk.sp]
           /\ async_exn_handler' =
                IF async THEN [async_exn_handler EXCEPT ![c] = stk.sp]
                ELSE async_exn_handler
  /\ ev' = PushEv
  /\ UNCHANGED <<scanvars, cfg, caml_max_stack_wsize, fiber_id, nseg, stack_cache, cache_freed, backend_calls,
                 released, arena_frees, current_stack, c_stack, cont, held, pc, call,
                 running, marking, darkened, owned, freelog>>

\* native code calls C and C calls back: the return address (with frame pointers, the
\* frame record) is pushed and a c_stack_link records the stack, its sp and
\* async_exn_handler
CCall(c) ==
  /\ cfg.native
  /\ CanPush(c, IF cfg.fp THEN 2 ELSE 1)
  /\ LET cur == current_stack[c]
         retaddr == Val_long(stack_used(cfg, segs[cur]))
         prev == IF c_stack[c] = <<>> THEN NULL ELSE Head(c_stack[c]).fp
         stk == Pushed(segs[cur], IF cfg.fp THEN <<prev, retaddr>> ELSE <<retaddr>>)
         link == [stack |-> cur, sp |-> stk.sp,
                  async_exn_handler |-> async_exn_handler[c],
                  fp |-> IF cfg.fp THEN stk.sp ELSE NULL]
     IN  /\ segs' = [segs EXCEPT ![cur] = stk]
         /\ c_stack' = [c_stack EXCEPT ![c] = <<link>> \o @]
  /\ ev' = PushEv
  /\ UNCHANGED <<scanvars, cfg, caml_max_stack_wsize, fiber_id, nseg, stack_cache, cache_freed, backend_calls,
                 released, arena_frees, current_stack, exn_handler, async_exn_handler,
                 cont, held, pc, call, running, marking, darkened, owned, freelog>>

\* caml_ensure_stack_capacity (lines 692-700), bytecode only; called is whether
\* caml_try_realloc_stack was called, grown what it returned
EnsureStackCapacity(c) ==
  /\ ~cfg.native
  /\ c \in running
  /\ pc[c] = "idle"
  /\ current_stack[c] # NULL
  /\ backend_calls <= MaxSeg
  /\ \E req \in Required, ok \in BOOLEAN :
       LET old_stack == current_stack[c]
           called == segs[old_stack].sp - W * req < Stack_base(cfg, segs[old_stack])
       IN  \E r \in {IF called
                     THEN caml_try_realloc_stack(cfg, Heap, c, CtxState(c),
                                                 caml_max_stack_wsize, req, ok)
                     ELSE [ret |-> 1, H |-> Heap, S |-> CtxState(c), wsize |-> 0]} :
             LET new_stack == r.S.current_stack
                 b == segs[old_stack].cache_bucket
                 moved == called /\ r.ret = 1
                 log1 == IF moved
                         THEN [freelog EXCEPT ![c] =
                                 [k \in Buckets |-> Without(freelog[c][k], new_stack)]]
                         ELSE freelog
             IN  /\ SetHeap(r.H)
                 /\ current_stack' = [current_stack EXCEPT ![c] = r.S.current_stack]
                 /\ exn_handler' = [exn_handler EXCEPT ![c] = r.S.exn_handler]
                 /\ async_exn_handler' =
                      [async_exn_handler EXCEPT ![c] = r.S.async_exn_handler]
                 /\ c_stack' = [c_stack EXCEPT ![c] = r.S.c_stack]
                 /\ freelog' = IF moved /\ b # -1
                               THEN [log1 EXCEPT ![c][b] = Append(@, old_stack)]
                               ELSE log1
                 /\ ev' = [op |-> "ensure", arg |-> req, ret |-> Val_unit,
                           exn |-> IF r.ret = 0 THEN "Stack_overflow" ELSE "none",
                           pre |-> GrowPre(c) @@ [wsize |-> r.wsize, called |-> called,
                                                  grown |-> r.ret]]
  /\ UNCHANGED <<scanvars, cfg, caml_max_stack_wsize, fiber_id, cont, held, pc, call, running,
                 marking, darkened, owned>>

\* the builds in which a fiber runs: the heap backend in bytecode and native code,
\* the mapped stacks in bytecode and native code, the guard pages in native code
GrowBuilds ==
  { b \in Builds : /\ b.init_wsize = caml_fiber_wsz
                   /\ (b.backend # "heap" => ~b.fp /\ b.pad = 0) }

\* the values of caml_max_stack_wsize: between the fiber size and its double, and
\* two doublings away
MaxWsizes == {caml_fiber_wsz + 1, 4 * caml_fiber_wsz}

\* the main stack (block 1) and a fiber (block 2) that runs with the main stack as
\* parent; in native code the main stack holds the trap frame of the handler and the
\* fiber has a local-arena stack (bytecode has none, line 778)
GrowHeap(B, arenas) ==
  LET r1 == caml_alloc_stack_noexc(B, EmptyHeap, 1, B.init_wsize,
                                   Val_unit, Val_unit, Val_unit, 0, TRUE)
      h == Handlers(1)
      r2 == alloc_size_class_stack_noexc(B, r1.H, 1, caml_fiber_wsz, 0,
                                         h[1], h[2], h[3], 1, TRUE)
      fiber0 == IF B.native THEN r2.H.segs[r2.stack]
                ELSE Pushed(r2.H.segs[r2.stack], <<Val_long(1)>>)
  IN  [r2.H EXCEPT
         !.segs[r1.stack] = IF B.native THEN Pushed(@, <<NULL, Val_long(0)>>) ELSE @,
         !.segs[r2.stack] =
            [fiber0 EXCEPT !.parent = r1.stack,
                           !.local_arenas = arenas,
                           !.local_sp = IF arenas = NULL THEN 0 ELSE 0 - 2 * W,
                           !.local_top = IF arenas = NULL THEN NULL ELSE page_size + 4 * W,
                           !.local_limit = IF arenas = NULL THEN 0 ELSE 4 * W]]

\* a fiber runs on context 1 under a handler of the main stack
InitGrow ==
  /\ cfg \in GrowBuilds
  /\ caml_max_stack_wsize \in MaxWsizes
  /\ SetInitHeap(GrowHeap(cfg, IF cfg.native THEN 1 ELSE NULL))
  /\ fiber_id = 2
  /\ running = {1}
  /\ current_stack = [c \in Ctx |-> IF c = 1 THEN 2 ELSE NULL]
  /\ exn_handler = [c \in Ctx |-> IF c = 1 /\ cfg.native THEN segs[1].sp ELSE NULL]
  /\ async_exn_handler = [c \in Ctx |-> IF c = 1 /\ cfg.native THEN segs[1].sp ELSE NULL]
  /\ c_stack = [c \in Ctx |->
                  IF c = 1 /\ cfg.native
                  THEN <<[stack |-> 1, sp |-> segs[1].sp,
                          async_exn_handler |-> segs[1].sp,
                          fp |-> IF cfg.fp THEN segs[1].sp ELSE NULL]>>
                  ELSE <<>>]
  /\ cont = [stk |-> NULL, young |-> TRUE, wins |-> 0]
  /\ marking = FALSE
  /\ held = [c \in Ctx |-> {}]
  /\ pc = [c \in Ctx |-> "idle"]
  /\ call = [c \in Ctx |-> NoCall]
  /\ darkened = FALSE
  /\ owned = {}
  /\ freelog = [c \in Ctx |-> [b \in Buckets |-> <<>>]]
  /\ ev = [op |-> "init", arg |-> 0, ret |-> 0, exn |-> "none", pre |-> <<>>]
  /\ NoScanning

NextGrow ==
  \E c \in Ctx :
    \/ PushValue(c)
    \/ PushTrap(c)
    \/ CCall(c)
    \/ TryReallocStack(c)
    \/ EnsureStackCapacity(c)

SpecGrow == InitGrow /\ [][NextGrow]_vars

\* the running fiber completes: control returns to the handler in the parent stack
\* and the stack of the fiber is freed with caml_free_stack (lines 972-994).  The
\* fiber has popped what it pushed: no trap frame and no c_stack_link is on its stack.
FiberReturn(c) ==
  /\ c \in running
  /\ pc[c] = "idle"
  /\ current_stack[c] # NULL
  /\ LET cur == current_stack[c]
         stk == segs[cur]
     IN  /\ stk.parent # NULL
         /\ stack_used(cfg, stk) = (IF cfg.native THEN 0 ELSE 1)
         /\ SetHeap(caml_free_stack(Heap, c, cur))
         /\ current_stack' = [current_stack EXCEPT ![c] = stk.parent]
         /\ freelog' = FreelogAfterFree(c, cur)
         /\ ev' = [op |-> "return", arg |-> cur, ret |-> 0, exn |-> "none",
                   pre |-> GrowPre(c)]
  /\ UNCHANGED <<scanvars, cfg, caml_max_stack_wsize, fiber_id, exn_handler,
                 async_exn_handler, c_stack, cont, held, pc, call, running, marking,
                 darkened, owned>>

\* a fiber that grows its stack and then completes, the parent running on
NextFiber ==
  \E c \in Ctx :
    \/ PushValue(c)
    \/ PushTrap(c)
    \/ CCall(c)
    \/ TryReallocStack(c)
    \/ EnsureStackCapacity(c)
    \/ FiberReturn(c)

SpecFiber == InitGrow /\ [][NextFiber]_vars

\* the builds of the heap backend without frame pointers
RecycleBuilds == { b \in GrowBuilds : b.backend = "heap" /\ ~b.fp /\ b.align = 0 }

\* the fiber of InitGrow in these builds, the stacks growing to four fibers at most
InitRecycle ==
  /\ InitGrow
  /\ cfg \in RecycleBuilds
  /\ caml_max_stack_wsize = 4 * caml_fiber_wsz

\* the stacks grow, the fiber completes, and the running code allocates the stack of
\* another fiber or of a thread, which the cache may provide
NextRecycle ==
  \E c \in Ctx :
    \/ AllocStack(c)
    \/ AllocMainStack(c)
    \/ TryReallocStack(c)
    \/ FiberReturn(c)

SpecRecycle == InitRecycle /\ [][NextRecycle]_vars

(* ---------------------------- several domains -------------------------- *)

\* a domain terminates and caml_free_stack_cache (lines 148-158) is called on its
\* cache.  The domain does not run afterwards.  A domain leaves the set of running
\* domains in a stop-the-world section (domain.c), which the other domains join at a
\* safepoint: none of them is inside caml_continuation_use_noexc.
FreeStackCache(c) ==
  /\ c \in running
  /\ \A d \in Ctx : pc[d] = "idle"
  /\ SetHeap(caml_free_stack_cache(Heap, c))
  /\ running' = running \ {c}
  /\ freelog' = [freelog EXCEPT ![c] = [b \in Buckets |-> <<>>]]
  /\ ev' = [op |-> "free_cache", arg |-> c, ret |-> 0, exn |-> "none",
            pre |-> [lists |-> [b \in Buckets |-> FreeList(c, b)],
                     released |-> released, cache_freed |-> cache_freed]]
  /\ UNCHANGED <<scanvars, cfg, caml_max_stack_wsize, fiber_id, current_stack, exn_handler,
                 async_exn_handler, c_stack, cont, held, pc, call, marking, darkened,
                 owned>>

\* who runs on block 1: the last context, which has it as its main stack, or nobody
\* (0), block 1 being then the parent of the fiber the continuation holds
MainOf == {0, NCtx}

\* the native build of the heap backend with the padding word: the capacity of a
\* fiber is caml_fiber_wsz, and a stack grows into a pooled segment
DomainBuilds == { b \in RecycleBuilds : b.pad = 1 }

\* block 1, a main stack, and block 2, a fiber with words on its stack and, in native
\* code, local arenas; m is the context that runs on block 1
DomainsHeap(B, m) ==
  LET r1 == caml_alloc_stack_noexc(B, EmptyHeap, 1, B.init_wsize,
                                   Val_unit, Val_unit, Val_unit, 0, TRUE)
      h == Handlers(1)
      r2 == alloc_size_class_stack_noexc(B, r1.H, 1, caml_fiber_wsz, 0,
                                         h[1], h[2], h[3], 1, TRUE)
      arenas == IF B.native THEN 1 ELSE NULL
  IN  [r2.H EXCEPT
         !.segs[r2.stack] =
            [Pushed(@, <<Val_long(1)>>) EXCEPT
                !.parent = IF m = 0 THEN r1.stack ELSE NULL,
                !.local_arenas = arenas,
                !.local_sp = IF arenas = NULL THEN 0 ELSE 0 - 2 * W,
                !.local_top = IF arenas = NULL THEN NULL ELSE page_size + 4 * W,
                !.local_limit = IF arenas = NULL THEN 0 ELSE 4 * W]]

\* the first and the last context run; the continuation holds the fiber of block 2;
\* a stack can grow once and one more fiber can be allocated
InitDomains ==
  /\ cfg \in DomainBuilds
  /\ caml_max_stack_wsize = caml_fiber_wsz + 1
  /\ running = {1, NCtx}
  /\ exn_handler = [c \in Ctx |-> NULL]
  /\ async_exn_handler = [c \in Ctx |-> NULL]
  /\ c_stack = [c \in Ctx |-> <<>>]
  /\ held = [c \in Ctx |-> {}]
  /\ pc = [c \in Ctx |-> "idle"]
  /\ call = [c \in Ctx |-> NoCall]
  /\ darkened = FALSE
  /\ owned = {}
  /\ freelog = [c \in Ctx |-> [b \in Buckets |-> <<>>]]
  /\ ev = [op |-> "init", arg |-> 0, ret |-> 0, exn |-> "none", pre |-> <<>>]
  /\ NoScanning
  /\ marking = FALSE
  /\ cont = [stk |-> 2, young |-> TRUE, wins |-> 0]
  /\ fiber_id = MaxFiberId - 1
  /\ \E m \in MainOf :
       /\ SetInitHeap(DomainsHeap(cfg, m))
       /\ current_stack = [c \in Ctx |-> IF c = m THEN 1 ELSE NULL]

\* allocation, release and growth by every context, the primitives on the
\* continuation, and the termination of domains
NextDomains ==
  \E c \in Ctx :
    \/ AllocStack(c)
    \/ FreeStack(c)
    \/ TryReallocStack(c)
    \/ ContEnter(c)
    \/ ContRead(c)
    \/ ContFinish(c)
    \/ ContReplace(c)
    \/ FreeStackCache(c)

SpecDomains == InitDomains /\ [][NextDomains]_vars

(* ------------------------- claims on stack growth ---------------------- *)

\* the last operation was a growth that returned 1
GrewOk == ev.op = "grow" /\ ev.ret = 1

\* the segment the growth left, as it was before, and the one it made current
OldSeg == ev.pre.seg
NewSeg == segs[current_stack[1]]

\* the move delta: new top minus old top
Delta == Stack_high(cfg, NewSeg) - Stack_high(cfg, OldSeg)

InOldRegion(p) == Stack_base(cfg, OldSeg) <= p /\ p < Stack_high(cfg, OldSeg)

InNewRegion(p) == Stack_base(cfg, NewSeg) <= p /\ p < Stack_high(cfg, NewSeg)

Moved(p) == IF InOldRegion(p) THEN p + Delta ELSE p

\* the addresses in the live region of stk of the link words of the chain from p
RECURSIVE ChainLocs(_, _, _, _)
ChainLocs(B, stk, p, fuel) ==
  IF fuel = 0 \/ ~InLive(B, stk, p) THEN {}
  ELSE {p} \cup ChainLocs(B, stk, WordAt(stk, p), fuel - 1)

\* the link words of the trap frames of the old segment
ExnLocs == ChainLocs(cfg, OldSeg, ev.pre.exn, Len(OldSeg.data) + 1)

\* with frame pointers, the saved frame pointers of the old segment
FpLocs ==
  IF cfg.fp
  THEN UNION { ChainLocs(cfg, OldSeg, ev.pre.links[i].fp, Len(OldSeg.data) + 1) :
                 i \in { j \in DOMAIN ev.pre.links : ev.pre.links[j].stack = ev.pre.cur } }
  ELSE {}

\* the address of the i-th live word of the old segment
OldAddr(i) == OldSeg.sp + W * (i - 1)

\* C8 as claimed: after a successful growth the live region of the new segment holds
\* exactly the words of the old live region in the same order, the number of used
\* words is unchanged and the parent link is the old one.
C8_LiveRegionIdentical ==
  GrewOk =>
     /\ NewSeg.data = OldSeg.data
     /\ NewSeg.sp = Stack_high(cfg, NewSeg) - W * stack_used(cfg, OldSeg)
     /\ NewSeg.parent = OldSeg.parent

\* C8 as the code has it: after a successful growth the number of used words and the
\* parent link are the old ones, and the live words are the old ones in the same
\* order, except the link words of trap frames and the saved frame pointers that
\* pointed into the old region, which hold the old address plus the move delta.
C8_LiveRegionCopied ==
  GrewOk =>
     /\ Len(NewSeg.data) = Len(OldSeg.data)
     /\ \A i \in DOMAIN OldSeg.data :
          NewSeg.data[i] = IF OldAddr(i) \in ExnLocs \cup FpLocs
                           THEN Moved(OldSeg.data[i])
                           ELSE OldSeg.data[i]
     /\ NewSeg.sp = Stack_high(cfg, NewSeg) - W * stack_used(cfg, OldSeg)
     /\ stack_used(cfg, NewSeg) = Len(NewSeg.data)
     /\ NewSeg.parent = OldSeg.parent

\* a growth moved a stack of three words or more that held a link into itself
C8_Witness ==
  /\ GrewOk
  /\ Len(OldSeg.data) >= 3
  /\ NewSeg.parent # NULL
  /\ \E i \in DOMAIN OldSeg.data :
       /\ InOldRegion(OldSeg.data[i])
       /\ NewSeg.data[i] = OldSeg.data[i] + Delta
  /\ \E i \in DOMAIN OldSeg.data : NewSeg.data[i] = OldSeg.data[i]

\* C9: after a successful growth exn_handler, async_exn_handler, the links of the
\* trap frames and the sp and async_exn_handler of every c_stack_link hold the old
\* address plus the move delta when it pointed into the old region, and the old
\* value otherwise; a moved pointer lies in the new region, none points into the old.
C9_PointersTranslated ==
  GrewOk =>
     /\ exn_handler[1] = Moved(ev.pre.exn)
     /\ async_exn_handler[1] = Moved(ev.pre.async)
     /\ \A a \in ExnLocs : WordAt(NewSeg, a + Delta) = Moved(WordAt(OldSeg, a))
     /\ Len(c_stack[1]) = Len(ev.pre.links)
     /\ \A i \in DOMAIN ev.pre.links :
          /\ c_stack[1][i].sp = Moved(ev.pre.links[i].sp)
          /\ c_stack[1][i].async_exn_handler = Moved(ev.pre.links[i].async_exn_handler)
     /\ \A p \in {ev.pre.exn, ev.pre.async}
                 \cup { WordAt(OldSeg, a) : a \in ExnLocs }
                 \cup { ev.pre.links[i].sp : i \in DOMAIN ev.pre.links }
                 \cup { ev.pre.links[i].async_exn_handler : i \in DOMAIN ev.pre.links } :
          /\ ~InOldRegion(Moved(p))
          /\ InOldRegion(p) =>
               /\ InNewRegion(Moved(p))
               /\ Stack_high(cfg, NewSeg) - Moved(p) = Stack_high(cfg, OldSeg) - p

\* a growth moved a stack with a trap frame that is also the asynchronous one and a
\* c_stack_link made under it, below a link and a trap frame of the parent
C9_Witness ==
  /\ GrewOk
  /\ InOldRegion(ev.pre.exn) /\ ev.pre.async = ev.pre.exn
  /\ exn_handler[1] = ev.pre.exn + Delta
  /\ ~InOldRegion(WordAt(OldSeg, ev.pre.exn)) /\ WordAt(OldSeg, ev.pre.exn) # NULL
  /\ \E i \in DOMAIN ev.pre.links :
       /\ ev.pre.links[i].stack = ev.pre.cur
       /\ InOldRegion(ev.pre.links[i].async_exn_handler)
       /\ c_stack[1][i].sp = ev.pre.links[i].sp + Delta
  /\ \E i \in DOMAIN ev.pre.links :
       /\ ev.pre.links[i].stack # ev.pre.cur
       /\ c_stack[1][i] = ev.pre.links[i]

\* C10 as claimed: a growth asks caml_alloc_stack_noexc for no more than
\* caml_max_stack_wsize words, or asks for nothing and fails.
C10_RequestWithinMax ==
  ev.op = "grow" =>
     /\ ev.pre.wsize <= caml_max_stack_wsize
     /\ (ev.pre.wsize = 0 => ev.ret = 0)

\* the power of two p (at most 2^fuel) with a * p = b, 0 when there is none
RECURSIVE DoublingsFrom(_, _, _)
DoublingsFrom(a, b, fuel) ==
  IF a = b THEN 1
  ELSE IF fuel = 0 \/ a > b THEN 0
  ELSE 2 * DoublingsFrom(a + a, b, fuel - 1)

\* free words of a segment, between Stack_base and sp
FreeWords(B, stk) == (stk.sp - Stack_base(B, stk)) \div W

\* C11: caml_ensure_stack_capacity calls caml_try_realloc_stack exactly when sp minus
\* the required words is below Stack_base; a successful growth asked for the old
\* capacity doubled once or more, as often as needed to hold the used and required
\* words; a failed growth raises Stack_overflow and leaves the current stack; and
\* when the call returns normally the required words are free below sp.
C11_EnsureCapacity ==
  ev.op = "ensure" =>
     LET old == ev.pre.seg
         need == stack_used(cfg, old) + ev.arg
     IN  /\ ev.pre.called <=> (FreeWords(cfg, old) < ev.arg)
         /\ ev.exn = "none" => FreeWords(cfg, segs[current_stack[1]]) >= ev.arg
         /\ ~ev.pre.called => ev.exn = "none" /\ current_stack[1] = ev.pre.cur
         /\ (ev.pre.called /\ ev.pre.grown = 1) =>
               /\ ev.exn = "none"
               /\ current_stack[1] # ev.pre.cur
               /\ DoublingsFrom(Capacity(cfg, old), ev.pre.wsize, MaxSeg + 3) >= 2
               /\ ev.pre.wsize >= need
               /\ (ev.pre.wsize > 2 * Capacity(cfg, old) => ev.pre.wsize < 2 * need)
               /\ Capacity(cfg, segs[current_stack[1]]) >= ev.pre.wsize
         /\ (ev.pre.called /\ ev.pre.grown = 0) =>
               /\ ev.exn = "Stack_overflow"
               /\ current_stack[1] = ev.pre.cur

\* caml_ensure_stack_capacity grew the stack to four times its capacity and returned
C11_Witness ==
  /\ ev.op = "ensure" /\ ev.pre.called /\ ev.pre.grown = 1 /\ ev.exn = "none"
  /\ ev.pre.wsize = 4 * Capacity(cfg, ev.pre.seg)
  /\ FreeWords(cfg, segs[current_stack[1]]) >= ev.arg

\* the last operation was a growth that failed
GrowFailed ==
  \/ ev.op = "grow" /\ ev.ret = 0
  \/ ev.op = "ensure" /\ ev.pre.called /\ ev.pre.grown = 0

\* C12: a step in which caml_try_realloc_stack returns 0 changes no segment, no
\* cache, no release count, and not current_stack, exn_handler, async_exn_handler
\* or c_stack; it asks the Backend at most once, and caml_ensure_stack_capacity
\* then raises Stack_overflow.
C12_FailedGrowthChangesNothing ==
  [][GrowFailed' =>
       /\ UNCHANGED <<segs, nseg, stack_cache, released, arena_frees, current_stack,
                      exn_handler, async_exn_handler, c_stack, freelog>>
       /\ backend_calls' <= backend_calls + 1
       /\ (ev'.op = "ensure" => ev'.exn = "Stack_overflow")]_vars

\* the allocation of the new stack failed for a fiber with local arenas, an
\* exception handler and a cached stack
C12_Witness ==
  /\ ev.op = "grow" /\ ev.ret = 0
  /\ cfg.backend = "heap" /\ ev.pre.wsize > 0
  /\ segs[current_stack[1]].local_arenas # NULL
  /\ InLive(cfg, segs[current_stack[1]], exn_handler[1])
  /\ \E b \in Buckets : stack_cache[1][b] # NULL

(* --------------------------- segment ids -------------------------------- *)

\* the bytecode build of the heap backend
IdBuilds == { b \in GrowBuilds : b.backend = "heap" /\ ~b.native /\ b.align = 0 }

\* every context runs; context 1 runs on the main stack, which
\* caml_alloc_main_stack gave the first id
InitIds ==
  /\ cfg \in IdBuilds
  /\ caml_max_stack_wsize = 4 * caml_fiber_wsz
  /\ SetInitHeap(caml_alloc_stack_noexc(cfg, EmptyHeap, 1, cfg.init_wsize,
                                        Val_unit, Val_unit, Val_unit, 0, TRUE).H)
  /\ fiber_id = 1
  /\ running = Ctx
  /\ current_stack = [c \in Ctx |-> IF c = 1 THEN 1 ELSE NULL]
  /\ exn_handler = [c \in Ctx |-> NULL]
  /\ async_exn_handler = [c \in Ctx |-> NULL]
  /\ c_stack = [c \in Ctx |-> <<>>]
  /\ cont = [stk |-> NULL, young |-> TRUE, wins |-> 0]
  /\ marking = FALSE
  /\ held = [c \in Ctx |-> {}]
  /\ pc = [c \in Ctx |-> "idle"]
  /\ call = [c \in Ctx |-> NoCall]
  /\ darkened = FALSE
  /\ owned = {}
  /\ freelog = [c \in Ctx |-> [b \in Buckets |-> <<>>]]
  /\ ev = [op |-> "init", arg |-> 0, ret |-> 0, exn |-> "none", pre |-> <<>>]
  /\ NoScanning

\* allocations and releases by every context, growth of the running stack
NextIds ==
  \E c \in Ctx :
    \/ AllocStack(c)
    \/ AllocMainStack(c)
    \/ FreeStack(c)
    \/ TryReallocStack(c)

SpecIds == InitIds /\ [][NextIds]_vars

\* the blocks in use: held by the caller of an allocation, or a running stack
InUse == owned \cup { current_stack[c] : c \in { x \in Ctx : current_stack[x] # NULL } }

\* C13 as claimed: no two distinct segments that exist (handed out by the Backend
\* and not given back) carry the same id.
C13_IdsUniqueAmongAll ==
  \A s, t \in { x \in Allocated : released[x] = 0 } :
     s # t => segs[s].id # segs[t].id

\* C13 as the code has it: every allocation takes the value of the counter and
\* increments it, so the segments in use carry distinct ids, all below the counter;
\* a growth gives the id of the old segment to the new one, and the old one is no
\* longer in use.
C13_IdsUniqueInUse ==
  /\ \A s, t \in InUse : s # t => segs[s].id # segs[t].id
  /\ \A s \in InUse : 0 <= segs[s].id /\ segs[s].id < fiber_id
  /\ (ev.op = "alloc" /\ ev.ret # NULL) => segs[ev.ret].id = fiber_id - 1
  /\ (ev.op = "grow" /\ ev.ret = 1) =>
        /\ segs[current_stack[1]].id = ev.pre.seg.id
        /\ ev.pre.cur \notin InUse

\* two allocated segments and the grown main stack are in use, and the segment the
\* growth left is cached with the id of the grown one
C13_Witness ==
  /\ ev.op = "grow" /\ ev.ret = 1
  /\ Cardinality(InUse) >= 3
  /\ OnSomeFreeList(ev.pre.cur)
  /\ segs[ev.pre.cur].id = segs[current_stack[1]].id

(* ------------------------------ scanning ------------------------------- *)

\* caml_minor_heaps_start and caml_minor_heaps_end, the bounds Is_young tests
YoungLo == 256
YoungHi == 512
\* the one code fragment: what caml_find_code_fragment_by_pc finds
CodeLo == 64
CodeHi == 128

\* Is_block(v): the low bit is clear
Is_block(v) == v % 2 = 0

Is_young(v) == YoungLo <= v /\ v < YoungHi

\* caml_find_code_fragment_by_pc(pc) != NULL
In_code(v) == CodeLo <= v /\ v < CodeHi

\* header colours: NOT_MARKABLE is fixed, the three others are the colours
\* caml_global_heap_state gives to this cycle
NOT_MARKABLE == 768
caml_global_heap_state == [MARKED |-> 0, UNMARKED |-> 256, GARBAGE |-> 512]

Closure_tag == 247
Infix_tag == 249
No_scan_tag == 251
String_tag == 252

\* a header: Wosize_hd, Tag_hd, Color_hd and the reserved bits of mixed blocks
Make_header(wosize, tag, color) ==
  [wosize |-> wosize, tag |-> tag, color |-> color, reserved |-> 0]

\* the header that marks where an arena took over from the previous one
Local_uninit_hd == Make_header(0, 66, NOT_MARKABLE)

Bhsize_hd(hd) == W * (hd.wosize + 1)

With_status_hd(hd, color) == [hd EXCEPT !.color = color]

\* Scannable_wosize_hd: a mixed block is scanned up to its scannable prefix
Scannable_wosize_hd(hd) == IF hd.reserved = 0 THEN hd.wosize ELSE hd.reserved - 1

\* Start_env_closinfo(info): the start of the environment (the arity bits are clear)
Start_env_closinfo(info) == info \div 2

\* get_local_ix (lines 400-411): the first arena that holds v, or -1
get_local_ix(loc, v) ==
  LET hits == { i \in 0..(loc.count - 1) :
                  /\ loc.arenas[i + 1].base <= v
                  /\ v < loc.arenas[i + 1].base + loc.arenas[i + 1].length }
  IN  IF hits = {} THEN -1 ELSE CHOOSE i \in hits : \A j \in hits : i <= j

\* visit (lines 419-466) of a slot that holds v; locals is the local-arena stack of the
\* segment (NULL or an index of A).  f is whether the scanning action is called, ix
\* the result, M the memory after the call.
visit(M, A, locals, v) ==
  IF ~Is_block(v) THEN [M |-> M, ix |-> -1, f |-> FALSE]
  ELSE IF Is_young(v) THEN [M |-> M, ix |-> -1, f |-> TRUE]
  ELSE
    LET hd0 == M[v - W]
        vblock == IF hd0.tag = Infix_tag THEN v - W * hd0.wosize ELSE v
        hd == M[vblock - W]
    IN  IF hd.color = caml_global_heap_state.GARBAGE
        THEN [M |-> M, ix |-> -1, f |-> FALSE]
        ELSE IF hd.color = NOT_MARKABLE
        THEN IF locals = NULL THEN [M |-> M, ix |-> -1, f |-> FALSE]
             ELSE LET ix == get_local_ix(A[locals], vblock)
                  IN  [M |-> IF ix # -1
                             THEN [M EXCEPT ![vblock - W] =
                                     With_status_hd(hd, caml_global_heap_state.GARBAGE)]
                             ELSE M,
                       ix |-> ix, f |-> FALSE]
        ELSE [M |-> M, ix |-> -1, f |-> TRUE]

\* a test that takes every local pointer for a forwards pointer
forwards_any(sp, newsp) == TRUE

\* the test of line 542: the object at newsp is still to be scanned
forwards(sp, newsp) == sp <= newsp

\* a scan that leaves the mark of the object
reset_mark_skip(M, hp, hd) == M

\* reset mark (lines 521-523)
reset_mark(M, hp, hd) == [M EXCEPT ![hp] = With_status_hd(hd, NOT_MARKABLE)]

\* a call f(fdata, v, p) of the scanning action, as recorded in roots
Root(stack, kind, p, v) == [stack |-> stack, kind |-> kind, slot |-> p, v |-> v]

\* the loop over the fields of the object at hp (lines 536-552), from field i: the
\* memory and the calls of f after it, and whether it ended in caml_fatal_error
RECURSIVE scan_fields(_, _, _, _, _, _, _, _, _)
scan_fields(M, A, stack, locals, hp, i, n, sp, log) ==
  IF i >= n THEN [M |-> M, log |-> log, fatal |-> FALSE]
  ELSE
    LET p == hp + W * (i + 1)
        v == M[p]
    IN  With(LAMBDA r :
               LET log1 == IF r.f THEN Append(log, Root(stack, "local", p, v)) ELSE log
                   a == A[locals].arenas[r.ix + 1]
               IN  IF r.ix # -1 /\ ~forwards(sp, v - (a.base + a.length))
                   THEN [M |-> r.M, log |-> log1, fatal |-> TRUE]
                   ELSE scan_fields(r.M, A, stack, locals, hp, i + 1, n, sp, log1),
             visit(M, A, locals, v))

\* stack = Stack_parent(stack) and the test of the loop of caml_scan_stack
ToParent(sc, S) ==
  LET parent == S[sc.stack].parent
  IN  [sc EXCEPT !.stack = parent,
                 !.phase = IF parent = NULL THEN "done" ELSE "segment"]

\* scan_local_allocations after an object: sp += Bhsize_hd(hd) and the test of the
\* while loop (line 492); the function returns to caml_scan_stack when sp reaches 0
AfterObject(sc, S, hd) ==
  LET sp1 == sc.sp + Bhsize_hd(hd)
  IN  IF sp1 < 0 THEN [sc EXCEPT !.sp = sp1]
      ELSE ToParent([sc EXCEPT !.sp = sp1], S)

\* one iteration of the while loop of scan_local_allocations (lines 492-554)
ScanLocalStep ==
  /\ scan.phase = "locals"
  /\ LET locals == segs[scan.stack].local_arenas
         arena == caml_local_arenas[locals].arenas[scan.arena_ix + 1]
         hp == arena.base + arena.length + scan.sp
         hd == mem[hp]
     IN  IF hd = Local_uninit_hd
         THEN /\ scan' = [scan EXCEPT !.arena_ix = @ - 1]
              /\ UNCHANGED <<mem, roots>>
         ELSE IF hd.color = NOT_MARKABLE
         THEN /\ scan' = AfterObject(scan, segs, hd)
              /\ UNCHANGED <<mem, roots>>
         ELSE IF hd.tag >= No_scan_tag
         THEN /\ mem' = reset_mark(mem, hp, hd)
              /\ scan' = AfterObject(scan, segs, hd)
              /\ UNCHANGED roots
         ELSE \E r \in { scan_fields(reset_mark(mem, hp, hd),
                                     caml_local_arenas, scan.stack, locals, hp,
                                     IF hd.tag = Closure_tag
                                     THEN Start_env_closinfo(mem[hp + 2 * W]) ELSE 0,
                                     Scannable_wosize_hd(hd), scan.sp, roots) } :
                /\ mem' = r.M
                /\ roots' = r.log
                /\ scan' = IF r.fatal THEN [scan EXCEPT !.phase = "fatal"]
                           ELSE AfterObject(scan, segs, hd)
  /\ UNCHANGED <<caml_local_arenas, cfg, caml_max_stack_wsize, fiber_id, segs, nseg, stack_cache, cache_freed,
                 backend_calls, released, arena_frees, current_stack, exn_handler,
                 async_exn_handler, c_stack, cont, held, pc, call, running, marking,
                 darkened, owned, freelog, ev>>

\* bit of scanning_action_flags
SCANNING_ONLY_YOUNG_VALUES == 1

\* a test that forgets the code fragments: every block is scannable
is_scannable_nocode(flags, v) == flags % 2 = SCANNING_ONLY_YOUNG_VALUES \/ Is_block(v)

\* is_scannable (lines 712-716)
is_scannable(flags, v) ==
  \/ flags % 2 = SCANNING_ONLY_YOUNG_VALUES
  \/ (Is_block(v) /\ ~In_code(v))

\* return addresses of the compiled code and the one of the code that calls it
RetA == 64
RetB == 72
RetC == 80

\* caml_find_frame_descr: per return address the frame size in bytes, the live offsets
\* (odd: the register ofs >> 1 of the register block, even: the stack slot sp + ofs)
\* and whether the frame returns to C (the top of a chunk of OCaml frames)
caml_find_frame_descr(retaddr) ==
  CASE retaddr = RetA -> [frame_size |-> 2 * W, live_ofs |-> <<0>>, return_to_C |-> FALSE]
    [] retaddr = RetB -> [frame_size |-> 3 * W, live_ofs |-> <<W, 1, 0>>,
                          return_to_C |-> FALSE]
    [] retaddr = RetC -> [frame_size |-> 0, live_ofs |-> <<>>, return_to_C |-> TRUE]

\* the layout of a chunk of OCaml frames: the return address is the word below the
\* frame, the chunk ends with the trap frame, the gc_regs and the DWARF pointer
First_frame(sp) == sp + W
Saved_return_address(stk, sp) == WordAt(stk, sp - W)
Saved_gc_regs(stk, sp) == WordAt(stk, sp + 2 * W)
Stack_header_size == 4 * W

\* the loops over the live offsets of one frame (lines 589-609), from the n-th
RECURSIVE scan_live(_, _, _, _, _, _, _, _, _, _)
scan_live(M, A, stack, stk, locals, live_ofs, n, sp, regs, log) ==
  IF n > Len(live_ofs) THEN [M |-> M, log |-> log]
  ELSE
    LET ofs == live_ofs[n]
        root == IF ofs % 2 = 1 THEN regs + W * (ofs \div 2) ELSE sp + ofs
        v == IF ofs % 2 = 1 THEN M[root] ELSE WordAt(stk, root)
    IN  With(LAMBDA r :
               scan_live(r.M, A, stack, stk, locals, live_ofs, n + 1, sp, regs,
                         IF r.f THEN Append(log, Root(stack, "frame", root, v)) ELSE log),
             visit(M, A, locals, v))

\* scan_stack_frames (lines 558-623) from next_chunk with sp and regs (retaddr = NULL),
\* or inside the while loop with retaddr
RECURSIVE scan_stack_frames(_, _, _, _, _, _, _, _, _, _)
scan_stack_frames(B, M, A, stack, stk, locals, sp, retaddr, regs, log) ==
  IF retaddr = NULL
  THEN IF sp = Stack_high(B, stk) THEN [M |-> M, log |-> log]
       ELSE scan_stack_frames(B, M, A, stack, stk, locals, First_frame(sp),
                              Saved_return_address(stk, First_frame(sp)), regs, log)
  ELSE
    LET d == caml_find_frame_descr(retaddr)
    IN  IF ~d.return_to_C
        THEN With(LAMBDA r :
                    scan_stack_frames(B, r.M, A, stack, stk, locals, sp + d.frame_size,
                                      Saved_return_address(stk, sp + d.frame_size),
                                      regs, r.log),
                  scan_live(M, A, stack, stk, locals, d.live_ofs, 1, sp, regs, log))
        ELSE scan_stack_frames(B, M, A, stack, stk, locals, sp + Stack_header_size,
                               NULL, Saved_gc_regs(stk, sp), log)

\* the loop over the slots of a bytecode stack (lines 727-734), from the n-th word
RECURSIVE scan_slots(_, _, _, _, _)
scan_slots(stack, stk, fflags, n, log) ==
  IF n > Len(stk.data) THEN log
  ELSE scan_slots(stack, stk, fflags, n + 1,
                  IF is_scannable(fflags, stk.data[n])
                  THEN Append(log, Root(stack, "frame", stk.sp + W * (n - 1), stk.data[n]))
                  ELSE log)

\* the three fields of the struct stack_handler: address and value
HandlerSlots(stk) ==
  << <<stk.handler, stk.handle_value>>, <<stk.handler + W, stk.handle_exn>>,
     <<stk.handler + 2 * W, stk.handle_effect>> >>

\* the handlers filtered by is_scannable in native code too
scan_handlers_filtered(B, stack, stk, fflags, log) ==
  LET hs == HandlerSlots(stk)
      one(l, i) == IF is_scannable(fflags, hs[i][2])
                   THEN Append(l, Root(stack, "handler", hs[i][1], hs[i][2])) ELSE l
  IN  one(one(one(log, 1), 2), 3)

\* the calls of f on the handlers: every one in native code (lines 634-636), the
\* scannable ones in bytecode (lines 736-741)
scan_handlers(B, stack, stk, fflags, log) ==
  LET hs == HandlerSlots(stk)
      one(l, i) == IF B.native \/ is_scannable(fflags, hs[i][2])
                   THEN Append(l, Root(stack, "handler", hs[i][1], hs[i][2])) ELSE l
  IN  one(one(one(log, 1), 2), 3)

\* one turn of the loop of caml_scan_stack up to the loop of scan_local_allocations:
\* the frames and the handlers of the segment, then the local arenas (lines 477-481)
\* in native code, or the parent when there are none
ScanSegment ==
  /\ scan.phase = "segment"
  /\ LET stk == segs[scan.stack]
         locals == stk.local_arenas
     IN  \E r \in { IF cfg.native
                    THEN scan_stack_frames(cfg, mem, caml_local_arenas, scan.stack, stk,
                                           locals, stk.sp, NULL, scan.gc_regs, roots)
                    ELSE [M |-> mem,
                          log |-> scan_slots(scan.stack, stk, scan.fflags, 1, roots)] } :
           /\ mem' = r.M
           /\ roots' = scan_handlers(cfg, scan.stack, stk, scan.fflags, r.log)
           /\ scan' = LET sc == [scan EXCEPT !.visited = Append(@, scan.stack)]
                      IN  IF cfg.native /\ locals # NULL /\ stk.local_sp < 0
                          THEN [sc EXCEPT !.phase = "locals", !.sp = stk.local_sp,
                                          !.arena_ix = caml_local_arenas[locals].count - 1]
                          ELSE ToParent(sc, segs)
  /\ UNCHANGED <<caml_local_arenas, cfg, caml_max_stack_wsize, fiber_id, segs, nseg,
                 stack_cache, cache_freed, backend_calls, released, arena_frees, current_stack,
                 exn_handler, async_exn_handler, c_stack, cont, held, pc, call, running,
                 marking, darkened, owned, freelog, ev>>

NextScan ==
  \/ ScanSegment
  \/ ScanLocalStep

(* --------------------- what the collector scans ------------------------ *)

\* blocks of the major heap, a block outside the heap, a pointer inside a closure of
\* the major heap, a block of the minor heap, the register block
Maj1 == 1024
Maj2 == 1040
MajClos == 1056
MajInfix == 1072
Ext == 1536
Young1 == 264
GcRegs == 3072

HeapMem ==
  (Maj1 - W :> Make_header(1, 0, caml_global_heap_state.MARKED))
  @@ (Maj2 - W :> Make_header(1, 0, caml_global_heap_state.UNMARKED))
  @@ (MajClos - W :> Make_header(4, Closure_tag, caml_global_heap_state.UNMARKED))
  @@ (MajInfix - W :> Make_header(2, Infix_tag, caml_global_heap_state.UNMARKED))
  @@ (Ext - W :> Make_header(1, 0, NOT_MARKABLE))

\* the arenas of a local-arena stack with count arenas
ArenaLen == 512
ArenaBase(ix) == 4096 + 1024 * ix
LocalArenas(count) ==
  [count |-> count,
   arenas |-> [i \in 1..count |-> [base |-> ArenaBase(i - 1), length |-> ArenaLen]]]

\* the shapes of the objects of an arena, object 1 the most recent: small blocks in
\* one arena (1) or two (2), blocks whose second field holds a heap pointer (3), a
\* string among blocks (4), closures (5), mixed blocks with one scannable field (6)
Patterns == 1..6

ObjHd(pat, i) ==
  CASE pat = 3 -> Make_header(2, 0, NOT_MARKABLE)
    [] pat = 4 /\ i = 2 -> Make_header(1, String_tag, NOT_MARKABLE)
    [] pat = 5 -> Make_header(3, Closure_tag, NOT_MARKABLE)
    [] pat = 6 -> [Make_header(2, 0, NOT_MARKABLE) EXCEPT !.reserved = 2]
    [] OTHER -> Make_header(1, 0, NOT_MARKABLE)

\* the fields of an object, v the value of the field that is drawn
ObjFields(pat, v) ==
  CASE pat = 3 -> <<v, Maj2>>
    [] pat = 5 -> <<RetA, Val_long(2), v>>
    [] pat = 6 -> <<v, Maj2>>
    [] OTHER -> <<v>>

\* the objects 1..Split(pat) are in the second arena
Split(pat) == CASE pat = 2 -> 1 [] pat = 3 -> 2 [] OTHER -> 0

\* the offset of the header of object i from the end of its arena (as local_sp)
RECURSIVE ObjOff(_, _)
ObjOff(pat, i) ==
  IF i > NObj THEN 0 ELSE ObjOff(pat, i + 1) - Bhsize_hd(ObjHd(pat, i))

ObjHp(pat, i) ==
  ArenaBase(IF i <= Split(pat) THEN 1 ELSE 0) + ArenaLen + ObjOff(pat, i)

\* what the drawn field of an object holds: an integer, or an object of the arenas
Targets == 0..NObj

TargetVal(pat, t) == IF t = 0 THEN Val_long(0) ELSE ObjHp(pat, t) + W

ObjMem(pat, i, v) ==
  LET hp == ObjHp(pat, i)
      fs == ObjFields(pat, v)
  IN  (hp :> ObjHd(pat, i)) @@ [a \in { hp + W * j : j \in 1..Len(fs) } |-> fs[(a - hp) \div W]]

RECURSIVE ArenaMem(_, _, _)
ArenaMem(pat, tg, i) ==
  IF i > NObj
  THEN IF Split(pat) = 0 THEN <<>>
       ELSE (ArenaBase(1) + ArenaLen + ObjOff(pat, Split(pat) + 1)) :> Local_uninit_hd
  ELSE ObjMem(pat, i, TargetVal(pat, tg[i])) @@ ArenaMem(pat, tg, i + 1)

\* the stack of a fiber of compiled code: the return address of the most recent frame,
\* a frame of RetB, a frame of RetA, and the words the code that started the fiber
\* pushed; r are the values of the four roots in the order scan_stack_frames reads
\* them (the second is a register of the register block gc_regs, given apart)
NativeWords(r) ==
  <<RetB, r[3], r[1], RetA, r[4], RetC, Val_long(0), Val_long(0), NULL, Val_long(0)>>

ScanBuilds ==
  { b \in Builds : /\ b.backend = "heap" /\ ~b.fp /\ b.pad = 0 /\ b.align = 0
                   /\ b.init_wsize = caml_fiber_wsz }

\* a fiber whose local arenas hold NObj objects, each with one field drawn from
\* Targets, each referenced or not from the stack of the fiber
ArenaHeap(B, pat, rooted) ==
  LET r == caml_alloc_stack_noexc(B, EmptyHeap, 1, 8 * caml_fiber_wsz,
                                  Val_unit, Val_unit, Val_unit, 0, TRUE)
      rv == [i \in 1..4 |-> IF i <= NObj /\ rooted[i] THEN ObjHp(pat, i) + W
                            ELSE Val_long(0)]
  IN  [r.H EXCEPT !.segs[r.stack] =
         [Pushed(@, NativeWords(rv)) EXCEPT !.local_arenas = 1,
                                            !.local_sp = ObjOff(pat, 1)]]

InitQuiet ==
  /\ caml_max_stack_wsize = 64 * caml_fiber_wsz
  /\ running = {1}
  /\ current_stack = [c \in Ctx |-> NULL]
  /\ exn_handler = [c \in Ctx |-> NULL]
  /\ async_exn_handler = [c \in Ctx |-> NULL]
  /\ c_stack = [c \in Ctx |-> <<>>]
  /\ cont = [stk |-> NULL, young |-> TRUE, wins |-> 0]
  /\ marking = TRUE
  /\ held = [c \in Ctx |-> {}]
  /\ pc = [c \in Ctx |-> "idle"]
  /\ call = [c \in Ctx |-> NoCall]
  /\ darkened = FALSE
  /\ owned = {}
  /\ freelog = [c \in Ctx |-> [b \in Buckets |-> <<>>]]

\* the collector is about to scan a fiber with local arenas (compiled code)
InitArena ==
  /\ cfg \in { b \in ScanBuilds : b.native }
  /\ InitQuiet
  /\ \E pat \in Patterns, rooted \in [1..NObj -> BOOLEAN], tg \in [1..NObj -> Targets] :
       /\ SetInitHeap(ArenaHeap(cfg, pat, rooted))
       /\ mem = HeapMem @@ ArenaMem(pat, tg, 1)
                @@ (GcRegs :> IF rooted[2] THEN ObjHp(pat, 2) + W ELSE Val_long(0))
       /\ caml_local_arenas = [k \in {1} |-> LocalArenas(IF Split(pat) = 0 THEN 1 ELSE 2)]
       /\ ev = [op |-> "scan", arg |-> [pat |-> pat, rooted |-> rooted, tg |-> tg],
                ret |-> 0, exn |-> "none",
                pre |-> [objs |-> [i \in 1..NObj |-> ObjHp(pat, i)]]]
  /\ fiber_id = 1
  /\ scan = [NoScan EXCEPT !.phase = "segment", !.stack = 1, !.gc_regs = GcRegs]
  /\ roots = <<>>

SpecArena == InitArena /\ [][NextScan]_vars

(* ---------------------- claims on the local arenas --------------------- *)

\* the headers of the objects of the scanned arenas
Objs == Range(ev.pre.objs)

\* the object carries the colour visit gives to the local blocks it has met
Marked(M, hp) == M[hp].color = caml_global_heap_state.GARBAGE

\* the header the loop of scan_local_allocations is at
CurHp ==
  LET a == caml_local_arenas[segs[scan.stack].local_arenas].arenas[scan.arena_ix + 1]
  IN  a.base + a.length + scan.sp

\* the loop is at an object whose fields it is going to scan
AtMarkedObject ==
  /\ scan.phase = "locals"
  /\ mem[CurHp] # Local_uninit_hd
  /\ Marked(mem, CurHp)

\* the indices of the fields the loop of lines 536-552 visits
ScannedFields(M, hp) ==
  IF M[hp].tag >= No_scan_tag THEN {}
  ELSE { i \in 0..(Scannable_wosize_hd(M[hp]) - 1) :
           M[hp].tag = Closure_tag => i >= Start_env_closinfo(M[hp + 2 * W]) }

RefersToItself(M, hp) == \E i \in ScannedFields(M, hp) : M[hp + W * (i + 1)] = hp + W

\* the position of an object, as an offset from the end of its arena
OffsetOf(hp) ==
  LET loc == caml_local_arenas[segs[scan.stack].local_arenas]
      a == loc.arenas[get_local_ix(loc, hp) + 1]
  IN  hp - (a.base + a.length)

\* the scanned fields of the object at hp that reference an object the scan has passed
BackFields(M, hp) ==
  { i \in ScannedFields(M, hp) :
      /\ (M[hp + W * (i + 1)] - W) \in Objs
      /\ OffsetOf(M[hp + W * (i + 1)] - W) < scan.sp }

FirstBack(M, hp) == CHOOSE i \in BackFields(M, hp) : \A j \in BackFields(M, hp) : i <= j

\* every step of the loop moves on: the offset grows, or the arena index decreases
ScanMovesOn ==
  (scan.phase = "locals" /\ scan'.phase = "locals") =>
     /\ scan'.sp < 0 /\ scan'.arena_ix >= 0
     /\ \/ scan'.sp > scan.sp /\ scan'.arena_ix = scan.arena_ix
        \/ scan'.sp = scan.sp /\ scan'.arena_ix < scan.arena_ix

\* C15 as claimed: when scan_local_allocations ends without a fatal error no object of
\* the arenas carries the colour of marked local blocks, objects that reference
\* themselves included.
C15_NoObjectStaysMarked ==
  (ev.op = "scan" /\ scan.phase = "done") => \A hp \in Objs : ~Marked(mem, hp)

\* C15, amended: every step of the scan of the arenas moves on towards the end of the
\* arenas, so the scan terminates, also on objects that reference themselves or are
\* referenced several times; when it ends without a fatal error the only objects that
\* carry the colour of marked local blocks are objects that reference themselves.
C15_MarksResetExceptSelf ==
  [][ /\ ScanMovesOn
      /\ (ev.op = "scan" /\ scan'.phase = "done") =>
            \A hp \in Objs : Marked(mem', hp) => RefersToItself(mem', hp) ]_vars

\* the scan ended without a fatal error on two arenas where the oldest object is
\* referenced by two objects that the stack references and by nothing else: it was
\* marked during the scan, scanned (its heap pointer is a root) and reset
C15_Witness ==
  /\ ev.op = "scan" /\ scan.phase = "done"
  /\ ev.arg.pat = 3
  /\ ev.arg.tg[1] = NObj /\ ev.arg.tg[2] = NObj /\ ev.arg.tg[NObj] = 0
  /\ ev.arg.rooted[1] /\ ev.arg.rooted[2] /\ ~ev.arg.rooted[NObj]
  /\ \E k \in DOMAIN roots : roots[k].slot = ev.pre.objs[NObj] + 2 * W
  /\ \A hp \in Objs : ~Marked(mem, hp)

\* C16 as claimed: when a field the scan visits references an object the scan has
\* passed, the scan ends in caml_fatal_error at that field: no later field is visited,
\* no exception is raised, and nothing runs afterwards.
C16_BackwardAlwaysFatal ==
  [][ /\ scan.phase # "fatal"
      /\ (AtMarkedObject /\ BackFields(mem, CurHp) # {}) =>
            /\ scan'.phase = "fatal"
            /\ scan'.sp = scan.sp
            /\ ev'.exn = "none"
            /\ \A k \in (Len(roots) + 1)..Len(roots') :
                 roots'[k].slot < CurHp + W * (FirstBack(mem, CurHp) + 1) ]_vars

\* C16, amended: the same, for a reference to a passed object that does not carry the
\* colour of marked local blocks when the field is visited.
C16_BackwardToUnmarkedFatal ==
  [][ /\ scan.phase # "fatal"
      /\ (/\ AtMarkedObject /\ BackFields(mem, CurHp) # {}
          /\ ~Marked(mem, mem[CurHp + W * (FirstBack(mem, CurHp) + 1)] - W)) =>
            /\ scan'.phase = "fatal"
            /\ scan'.sp = scan.sp
            /\ ev'.exn = "none"
            /\ \A k \in (Len(roots) + 1)..Len(roots') :
                 roots'[k].slot < CurHp + W * (FirstBack(mem, CurHp) + 1) ]_vars

\* the scan ended in caml_fatal_error at an object of the first arena whose field
\* references the object of the second arena, after it reported a root
C16_Witness ==
  /\ ev.op = "scan" /\ scan.phase = "fatal"
  /\ ev.arg.pat = 2
  /\ scan.arena_ix = 0
  /\ ev.arg.tg[2] = 1
  /\ roots # <<>>

(* ------------------------- scanning of a chain ------------------------- *)

\* a second register block, the one a chunk of frames saved
GcRegs2 == 3200

\* the handlers of a segment
Triples ==
  << <<Val_unit, Val_unit, Val_unit>>, <<Maj1, Maj2, Young1>>,
     <<MajInfix, Val_unit, Maj1>>, <<RetA, Val_long(0), Young1>> >>

\* the values of the roots of a stack of compiled code
RootVecs ==
  << <<Val_long(0), Val_long(0), Val_long(0), Val_long(0)>>,
     <<Maj1, Young1, Ext, MajInfix>>,
     <<Young1, Maj2, Maj1, Val_long(0)>> >>

\* the words of a bytecode stack, the word at sp first
ByteWords ==
  << <<>>, <<Val_long(0)>>, <<Maj1, RetA>>, <<RetA, Young1>>, <<Young1, Val_long(0)>>,
     <<Maj1, Maj1>> >>

\* the stack of a parent fiber of compiled code: two frames of RetA (the frame that
\* resumed the child has no live register)
ParentWords(r) ==
  <<RetA, r[1], RetA, r[2], RetC, Val_long(0), Val_long(0), NULL, Val_long(0)>>

\* the stack of the running fiber when OCaml code called C code that called OCaml
\* code: a frame of RetA, the words that end the chunk with the saved register block,
\* then the frames of NativeWords
TwoChunkWords(r) ==
  <<RetA, r[1], RetC, Val_long(0), Val_long(0), GcRegs2, Val_long(0)>> \o NativeWords(r)

\* the arenas of a scanned chain: blocks of two fields, the first references the
\* next older object, the second a block of the major heap
ChainPat == 3
ChainTg == [i \in 1..NObj |-> IF i < NObj THEN i + 1 ELSE 0]

\* a scenario: the depth, the flags (compiled code does not read them), the segment
\* that has local arenas (0: none), the number of chunks of the top stack, and per
\* segment the words and the handlers
Scenarios(B) ==
  { sc \in [D : 1..MaxDepth, fflags : {0, SCANNING_ONLY_YOUNG_VALUES},
            arena_seg : 0..MaxDepth, chunks : {1, 2},
            img : [1..MaxDepth -> 1..Len(ByteWords)],
            tr : [1..MaxDepth -> 1..Len(Triples)]] :
      /\ sc.arena_seg <= sc.D
      /\ \A s \in 1..MaxDepth : s > sc.D => sc.img[s] = 1 /\ sc.tr[s] = 1
      /\ B.native => \A s \in 1..MaxDepth : sc.img[s] <= Len(RootVecs)
      /\ B.native => sc.fflags = 0
      /\ ~B.native => sc.arena_seg = 0 /\ sc.chunks = 1 }

\* the values of the roots of segment s of compiled code
SegRoots(sc, s) ==
  IF sc.arena_seg = s THEN [RootVecs[sc.img[s]] EXCEPT ![1] = ObjHp(ChainPat, 1) + W]
  ELSE RootVecs[sc.img[s]]

SegWords(B, sc, s) ==
  IF ~B.native THEN ByteWords[sc.img[s]]
  ELSE IF s > 1 THEN ParentWords(SegRoots(sc, s))
  ELSE IF sc.chunks = 2 THEN TwoChunkWords(SegRoots(sc, s))
  ELSE NativeWords(SegRoots(sc, s))

\* the chain of the scenario: segment s has segment s + 1 as parent
RECURSIVE ChainHeap(_, _, _, _)
ChainHeap(B, H, sc, s) ==
  IF s > sc.D THEN H
  ELSE
    LET t == Triples[sc.tr[s]]
        r == caml_alloc_stack_noexc(B, H, 1, 16 * caml_fiber_wsz, t[1], t[2], t[3],
                                    s - 1, TRUE)
    IN  ChainHeap(B,
                  [r.H EXCEPT !.segs[r.stack] =
                     [Pushed(@, SegWords(B, sc, s)) EXCEPT
                        !.parent = IF s < sc.D THEN s + 1 ELSE NULL,
                        !.local_arenas = IF sc.arena_seg = s THEN 1 ELSE NULL,
                        !.local_sp = IF sc.arena_seg = s THEN ObjOff(ChainPat, 1) ELSE 0]],
                  sc, s + 1)

\* the collector is about to scan the chain of the running fiber
InitScan ==
  /\ cfg \in ScanBuilds
  /\ InitQuiet
  /\ \E sc \in Scenarios(cfg) :
       /\ SetInitHeap(ChainHeap(cfg, EmptyHeap, sc, 1))
       /\ mem = HeapMem @@ ArenaMem(ChainPat, ChainTg, 1)
                @@ [a \in {GcRegs, GcRegs2} |->
                      IF cfg.native THEN SegRoots(sc, 1)[2] ELSE Val_long(0)]
       /\ caml_local_arenas = [k \in {1} |-> LocalArenas(2)]
       /\ ev = [op |-> "scan_chain", arg |-> sc, ret |-> 0, exn |-> "none",
                pre |-> [objs |-> [i \in 1..NObj |-> ObjHp(ChainPat, i)]]]
       /\ fiber_id = sc.D
       /\ scan = [NoScan EXCEPT !.phase = "segment", !.stack = 1, !.gc_regs = GcRegs,
                                !.fflags = sc.fflags]
  /\ roots = <<>>

SpecScan == InitScan /\ [][NextScan]_vars

(* ------------------- claims on the scanning of a chain ----------------- *)

\* the segments of the scanned chain, the top one first
Chain == ChainFrom(segs, 1, MaxSeg)

\* the calls of f of one kind for one segment
RootsOf(s, kind) == SelectSeq(roots, LAMBDA r : r.stack = s /\ r.kind = kind)

KindRank(kind) == CASE kind = "frame" -> 1 [] kind = "handler" -> 2 [] kind = "local" -> 3

\* the calls of f follow the chain, and in a segment the frames come first, then the
\* handlers, then the local arenas
RootsOrdered ==
  \A k, l \in DOMAIN roots :
     k < l => \/ roots[k].stack < roots[l].stack
              \/ /\ roots[k].stack = roots[l].stack
                 /\ KindRank(roots[k].kind) <= KindRank(roots[l].kind)

NoRootTwice == \A k, l \in DOMAIN roots : k # l => roots[k].slot # roots[l].slot

\* the blocks of the minor and of the major heap
IsHeapRef(v) == v \in {Maj1, Maj2, MajClos, MajInfix, Young1}

\* the values of the live slots of segment s of compiled code, in the order of the
\* frames
ExpRootVals(sc, s) ==
  LET r == SegRoots(sc, s)
  IN  IF s > 1 THEN <<r[1], r[2]>>
      ELSE IF sc.chunks = 2 THEN <<r[1], r[1], r[2], r[3], r[4]>>
      ELSE <<r[1], r[2], r[3], r[4]>>

\* the three handlers of segment s as calls of f
ThreeHandlers(s) ==
  LET hs == HandlerSlots(segs[s])
  IN  [i \in 1..3 |-> Root(s, "handler", hs[i][1], hs[i][2])]

\* what the scan of segment s reported: the frame roots, the handlers (all three, or
\* in bytecode when exact is FALSE the scannable ones), the roots of the local arenas
SegmentScanned(s, exact) ==
  LET sc == ev.arg
      fr == RootsOf(s, "frame")
  IN  /\ IF cfg.native
         THEN [k \in DOMAIN fr |-> fr[k].v] = SelectSeq(ExpRootVals(sc, s), IsHeapRef)
         ELSE \A k \in DOMAIN fr : /\ InLive(cfg, segs[s], fr[k].slot)
                                   /\ fr[k].v = WordAt(segs[s], fr[k].slot)
      /\ RootsOf(s, "handler") =
           IF cfg.native \/ exact THEN ThreeHandlers(s)
           ELSE SelectSeq(ThreeHandlers(s), LAMBDA r : is_scannable(sc.fflags, r.v))
      /\ RootsOf(s, "local") =
           IF sc.arena_seg = s
           THEN [i \in 1..NObj |-> Root(s, "local", ObjHp(ChainPat, i) + 2 * W, Maj2)]
           ELSE <<>>

ChainScanned(exact) ==
  (ev.op = "scan_chain" /\ scan.phase = "done") =>
     /\ scan.visited = Chain
     /\ Len(Chain) = ev.arg.D
     /\ RootsOrdered
     /\ NoRootTwice
     /\ \A s \in Range(Chain) : SegmentScanned(s, exact)

\* C14 as claimed: caml_scan_stack visits each segment of the chain once, from the top
\* one to the one without parent; in native code and in bytecode it reports for each
\* segment the frame roots, then exactly the three handlers, then the roots of the
\* local arenas, and no slot twice.
C14_ThreeHandlersBothModes == ChainScanned(TRUE)

\* C14, amended: the same, but in bytecode a handler is reported only when
\* is_scannable accepts it (and a bytecode segment has no local arenas).
C14_ChainScannedInOrder == ChainScanned(FALSE)

\* a chain of compiled code of full depth was scanned to its end: the top stack has two
\* chunks of frames, handlers that are integers, and the last segment has local arenas
C14_Witness ==
  /\ ev.op = "scan_chain" /\ scan.phase = "done"
  /\ cfg.native
  /\ ev.arg.D = MaxDepth /\ ev.arg.arena_seg = MaxDepth /\ ev.arg.chunks = 2
  /\ ev.arg.tr[1] = 1 /\ ev.arg.img[1] = 2
  /\ Len(RootsOf(1, "frame")) = 4
  /\ Len(RootsOf(MaxDepth, "local")) = NObj

\* whether slot p, which holds v, was handed to f
Reported(p, v) == \E k \in DOMAIN roots : roots[k].slot = p /\ roots[k].v = v

\* the slots of the stack and of the handlers of a segment: address and value
SlotsOf(s) ==
  { <<segs[s].sp + W * (n - 1), segs[s].data[n]>> : n \in DOMAIN segs[s].data }
  \cup Range(HandlerSlots(segs[s]))

\* C19 as claimed: in bytecode a slot between sp and the top, or a handler, is reported
\* only if it holds a heap reference: integers are skipped whatever the flags, and
\* code addresses are skipped unless the flags say only young values.
C19_OnlyHeapReferences ==
  (ev.op = "scan_chain" /\ scan.phase = "done" /\ ~cfg.native) =>
     \A k \in DOMAIN roots :
        /\ Is_block(roots[k].v)
        /\ In_code(roots[k].v) => ev.arg.fflags = SCANNING_ONLY_YOUNG_VALUES

\* C19, amended: without the only-young flag a slot or a handler is reported exactly
\* when it holds a block that is not a code address; with the flag every slot and
\* every handler is reported, integers and code addresses included.
C19_ScannableSlotsReported ==
  (ev.op = "scan_chain" /\ scan.phase = "done" /\ ~cfg.native) =>
     \A s \in Range(Chain) : \A pv \in SlotsOf(s) :
        Reported(pv[1], pv[2]) <=>
           \/ ev.arg.fflags = SCANNING_ONLY_YOUNG_VALUES
           \/ (Is_block(pv[2]) /\ ~In_code(pv[2]))

\* a bytecode chain was scanned without the flag: a block was reported, the code
\* address next to it and the one among the handlers were not
C19_Witness ==
  /\ ev.op = "scan_chain" /\ scan.phase = "done" /\ ~cfg.native
  /\ ev.arg.fflags = 0
  /\ ev.arg.img[1] = 3 /\ ev.arg.tr[1] = 4
  /\ Reported(segs[1].sp, Maj1)
  /\ ~Reported(segs[1].sp + W, RetA)
  /\ ~Reported(segs[1].handler, RetA)
  /\ Reported(segs[1].handler + 2 * W, Young1)

(* --------------------- more claims on continuations -------------------- *)

HandlersOf(stk) == <<stk.handle_value, stk.handle_exn, stk.handle_effect>>

\* C17: when caml_continuation_use_and_update_handler_noexc obtains the chain, the
\* segment of the chain that has no parent carries the three handlers given, and
\* nothing else changed: no other field of that segment, no other segment, no parent
\* link; when the continuation was empty at the call (and no chain was installed
\* during it) the call returns the null stack, and a call that returns the null stack
\* raises nothing and leaves every segment as it was.
C17_UpdateOutermostOnly ==
  ev.op = "use_and_update_handler" =>
     LET S0 == ev.pre.segs
         ch == ChainFrom(S0, ev.ret, MaxSeg)
     IN  /\ ev.exn = "none"
         /\ (ev.pre.empty0 /\ ~ev.pre.replaced) => ev.ret = NULL
         /\ ev.ret = NULL => segs = S0
         /\ ev.ret # NULL =>
              LET o == ch[Len(ch)]
              IN  /\ S0[o].parent = NULL
                  /\ HandlersOf(segs[o]) = NewHandlers
                  /\ segs[o] = [S0[o] EXCEPT !.handle_value = NewHandlers[1],
                                             !.handle_exn = NewHandlers[2],
                                             !.handle_effect = NewHandlers[3]]
                  /\ \A s \in SegIds \ {o} : segs[s] = S0[s]

\* the chain of two segments was obtained: the parent has the new handlers, the top
\* segment the ones it had
C17_Witness ==
  /\ ev.op = "use_and_update_handler" /\ ev.ret = 1
  /\ ChainFrom(ev.pre.segs, 1, MaxSeg) = <<1, 2>>
  /\ HandlersOf(segs[2]) = NewHandlers
  /\ HandlersOf(ev.pre.segs[2]) = <<21, 23, 25>>
  /\ HandlersOf(segs[1]) = <<11, 13, 15>>

\* C18: caml_continuation_replace on an empty continuation installs the chain given,
\* which the caller held, and touches no segment; a populated continuation keeps its
\* chain until a take returns exactly that chain, so the next take after a replace
\* returns the installed chain; caml_continuation_replace on a populated continuation
\* fails its assertion and leaves the continuation, the segments and what the caller
\* holds as they were.
C18_ReplaceInstallsOnEmptyOnly ==
  [][ /\ (ev'.op = "replace" /\ <<cont, held>>' # <<cont, held>>) =>
            /\ cont.stk = NULL
            /\ ev'.exn = "none"
            /\ cont'.stk = ev'.arg
            /\ \E c \in Ctx : ev'.arg \in held[c] /\ ev'.arg \notin held'[c]
            /\ segs' = segs
      /\ (ev'.op = "replace" /\ cont.stk # NULL) =>
            /\ cont' = cont /\ held' = held /\ segs' = segs
            /\ ev' # ev => ev'.exn = "assert"
      /\ (cont.stk # NULL /\ cont'.stk # cont.stk) =>
            /\ cont'.stk = NULL
            /\ ev'.op \in ContOps /\ ev'.ret = cont.stk ]_vars

\* the last context called caml_continuation_replace with its chain on the populated
\* continuation: the assertion failed, the continuation holds the chain it held
C18_Witness ==
  /\ ev.op = "replace" /\ ev.exn = "assert"
  /\ ev.arg = 3 /\ 3 \in held[NCtx]
  /\ cont.stk = 1
  /\ ev.pre.chain = <<1, 2>>

\* C20: a call of caml_continuation_use_noexc on a continuation of the major heap
\* while marking has started calls caml_darken_cont before it reads the slot and
\* before it empties it; the slot is emptied only by a call that finishes, and every
\* step of a call can be taken whatever the collector does.
C20_DarkenedBeforeTaken ==
  [][ /\ \A c \in Ctx :
           /\ (pc[c] = "idle" /\ pc'[c] = "read") =>
                 (call'[c].dark <=> (~cont.young /\ marking)) /\ (call'[c].dark => darkened')
           /\ (pc[c] = "read" /\ pc'[c] = "xchg" /\ ~cont.young /\ marking) => call[c].dark
           /\ (pc[c] = "xchg" /\ pc'[c] = "idle" /\ ~cont.young /\ marking) => call[c].dark
           /\ (c \in running /\ pc[c] = "idle") => ENABLED ContEnter(c)
           /\ pc[c] = "read" => ENABLED ContRead(c)
           /\ pc[c] = "xchg" => ENABLED ContFinish(c)
      /\ (cont.stk # NULL /\ cont'.stk = NULL) =>
            \E c \in Ctx : pc[c] = "xchg" /\ pc'[c] = "idle" /\ ev'.ret = cont.stk
      /\ darkened => darkened' ]_vars

\* a continuation of the major heap was emptied while marking had started, by one of
\* several contexts, and it was darkened
C20_Witness ==
  /\ ~cont.young /\ marking /\ running = Ctx
  /\ ev.op \in TakeOps /\ ev.ret # NULL
  /\ cont.stk = NULL
  /\ darkened

(* --------------------- claims on growth and release -------------------- *)

\* the segments of the chains the contexts run on
LiveSegs ==
  UNION { Range(ChainFrom(segs, current_stack[c], MaxSeg)) : c \in Ctx }

\* the live segments whose local_arenas is the arena stack a
RefersTo(a) == { s \in LiveSegs : segs[s].local_arenas = a }

\* C21: a successful growth gives the local arenas, local_sp, local_top and
\* local_limit of the old segment unchanged to the new one, clears them in the old
\* one before it is released, and frees no arena; over the growths and releases every
\* arena stack is freed at most once, never while a live segment refers to it, and no
\* two live segments refer to the same one.
C21_ArenasFollowGrowth ==
  [][/\ GrewOk' =>
          /\ segs'[current_stack'[1]].local_arenas = ev'.pre.seg.local_arenas
          /\ segs'[current_stack'[1]].local_sp = ev'.pre.seg.local_sp
          /\ segs'[current_stack'[1]].local_top = ev'.pre.seg.local_top
          /\ segs'[current_stack'[1]].local_limit = ev'.pre.seg.local_limit
          /\ segs'[ev'.pre.cur].local_arenas = NULL
          /\ segs'[ev'.pre.cur].local_sp = 0
          /\ segs'[ev'.pre.cur].local_top = NULL
          /\ segs'[ev'.pre.cur].local_limit = 0
          /\ arena_frees' = arena_frees
      /\ \A a \in DOMAIN arena_frees' :
          /\ arena_frees'[a] <= 1
          /\ Cardinality(RefersTo(a)') <= 1
          /\ arena_frees'[a] = 1 => RefersTo(a)' = {}]_vars

\* a fiber with local arenas grew its stack and completed: the arena stack was freed
\* once, with the grown segment, and the segment the growth left is cached or released
C21_Witness ==
  /\ ev.op = "return"
  /\ ev.pre.seg.local_arenas # NULL
  /\ ev.pre.cur # 2
  /\ arena_frees[ev.pre.seg.local_arenas] = 1
  /\ segs[2].local_arenas = NULL
  /\ OnSomeFreeList(2) \/ released[2] = 1
\* C23: after a successful growth the new segment is the current one and is another
\* segment than the old one; it has the handlers and the id of the old one; the old
\* one was released once, to a free-list or to the Backend; current_stack is not the
\* old segment, and every c_stack_link that had the old segment as its stack has the
\* new one, the others keeping theirs.
C23_NewSegmentInstalled ==
  GrewOk =>
     /\ current_stack[1] # ev.pre.cur
     /\ current_stack[1] # NULL
     /\ HandlersOf(NewSeg) = HandlersOf(OldSeg)
     /\ NewSeg.id = OldSeg.id
     /\ CachedCount(ev.pre.cur) + released[ev.pre.cur] = 1
     /\ CachedCount(current_stack[1]) + released[current_stack[1]] = 0
     /\ \A c \in Ctx : current_stack[c] # ev.pre.cur
     /\ Len(c_stack[1]) = Len(ev.pre.links)
     /\ \A i \in DOMAIN c_stack[1] :
          c_stack[1][i].stack = IF ev.pre.links[i].stack = ev.pre.cur
                                THEN current_stack[1]
                                ELSE ev.pre.links[i].stack

\* the main stack, with a c_stack_link on it, grew into a segment that a fiber had
\* grown into and freed when it completed
C23_Witness ==
  /\ GrewOk
  /\ ev.pre.cur = 1
  /\ \E i \in DOMAIN ev.pre.links : ev.pre.links[i].stack = 1
  /\ current_stack[1] \notin {1, 2}
  /\ backend_calls = ev.pre.calls
  /\ CachedCount(1) = 1
\* C22: a segment returned by alloc_size_class_stack_noexc, from the Backend or from
\* the cache, has the handlers and the id given, no parent, sp at Stack_high, a null
\* exception_ptr and no local arenas (the bytecode caml_alloc_stack then pushes one
\* word); the segment is on no free-list.
C22_ReturnedSegmentInitialised ==
  (ev.op = "alloc" /\ ev.ret # NULL) =>
     LET stk == segs[ev.ret]
     IN  /\ HandlersOf(stk) = ev.pre.h
         /\ stk.id = ev.pre.id
         /\ stk.parent = NULL
         /\ stk.sp = Stack_high(cfg, stk) - W * ev.pre.pushed
         /\ Len(stk.data) = ev.pre.pushed
         /\ stk.exception_ptr = NULL
         /\ stk.local_arenas = NULL
         /\ stk.local_sp = 0
         /\ stk.local_top = NULL
         /\ stk.local_limit = 0
         /\ ~OnSomeFreeList(ev.ret)

\* the segment came from the cache, where it had a parent, other handlers, another
\* id and the local arenas that were freed with it
C22_Witness ==
  /\ ev.op = "alloc" /\ ev.ret # NULL
  /\ backend_calls = ev.pre.calls
  /\ LET was == ev.pre.segs[ev.ret]
     IN  /\ was.parent # NULL
         /\ was.local_arenas # NULL
         /\ was.local_sp # 0
         /\ was.id # ev.pre.id
         /\ HandlersOf(was) # ev.pre.h
  /\ segs[ev.ret].local_arenas = NULL
(* ---------------------- claims on several domains ---------------------- *)

\* the segments that were on the free-lists of the cache that was freed
WasCached == UNION { Range(ev.pre.lists[b]) : b \in Buckets }

\* C24: caml_free_stack_cache gives every segment of each of the five free-lists of
\* the cache back to the Backend once, gives back no other segment, leaves every
\* free-list empty and frees the cache array once.
C24_CacheReleasedOnce ==
  ev.op = "free_cache" =>
     /\ \A s \in SegIds :
          released[s] = ev.pre.released[s] + (IF s \in WasCached THEN 1 ELSE 0)
     /\ \A s \in WasCached : released[s] = 1 /\ CachedCount(s) = 0
     /\ \A b \in Buckets : stack_cache[ev.arg][b] = NULL
     /\ cache_freed = [ev.pre.cache_freed EXCEPT ![ev.arg] = 1]

\* the cache that was freed held two segments of one class, and the cache of the
\* other domain holds a segment
C24_Witness ==
  /\ ev.op = "free_cache"
  /\ \E b \in Buckets : Len(ev.pre.lists[b]) >= 2
  /\ \E c \in Ctx \ {ev.arg}, b \in Buckets : stack_cache[c][b] # NULL
  /\ \A s \in WasCached : released[s] = 1
\* C25: a step of caml_alloc_stack, caml_free_stack, caml_try_realloc_stack or of a
\* primitive on the continuation by one domain leaves the free-lists of every other
\* domain as they are, and caml_free_stack by a domain puts a pooled segment in front
\* of the free-list of its class in the cache of that domain, whichever domain
\* allocated it or had it cached.
C25_OwnCacheOnly ==
  [][\A c \in Ctx :
       /\ (AllocStack(c) \/ FreeStack(c) \/ TryReallocStack(c) \/ ContFinish(c)) =>
             \A d \in Ctx \ {c}, b \in Buckets : FreeList(d, b)' = FreeList(d, b)
       /\ FreeStack(c) =>
             \A b \in Buckets :
                b = segs[ev'.arg].cache_bucket =>
                   FreeList(c, b)' = <<ev'.arg>> \o FreeList(c, b)]_vars

\* the first domain freed block 1, which was the main stack of the last domain, was
\* cached there when that stack grew and was allocated again from that cache
C25_Witness ==
  /\ ev.op = "free" /\ ev.arg = 1
  /\ current_stack[NCtx] \notin {NULL, 1}
  /\ \E b \in Buckets : stack_cache[1][b] = 1
  /\ NCtx \in running
\* the segments in use: held by the caller of an allocation, or part of the chain a
\* domain runs on, of the chain the continuation holds or of a chain a take returned
UsedSegs ==
  owned
  \cup UNION { Range(ChainFrom(segs, current_stack[c], MaxSeg)) : c \in Ctx }
  \cup Range(ChainFrom(segs, cont.stk, MaxSeg))
  \cup UNION { Range(ChainFrom(segs, s, MaxSeg)) : s \in UNION { held[c] : c \in Ctx } }

\* the number of places of segment s
Places(s) == CachedCount(s) + released[s] + (IF s \in UsedSegs THEN 1 ELSE 0)

HeldChains == UNION { held[c] : c \in Ctx }

====
